---- MODULE Spec2Model ----
(***************************************************************************)
(* Media Spacesaver: the coordinator (src/server) as a state machine.      *)
(*                                                                         *)
(* The state document of src/server/state.py is the tuple of variables     *)
(* entries, items, jobs, workers, scanStatus, config.  Every HTTP handler  *)
(* of src/server/app.py is one action: update_state runs the mutator under *)
(* _LOCK and persists the document only when the mutator returns, so a     *)
(* mutator that raises HTTPException leaves the document as it was.        *)
(*                                                                         *)
(* Abstractions: ids produced by new_id are fresh integers; timestamps are *)
(* whole seconds of the coordinator clock `now`; Python None is None (-1)  *)
(* in an integer field and the string "none" in a string field;            *)
(* display-only fields (entry name and notes, worker status, the           *)
(* timestamps of scanStatus and of entries, width, fps, codecs,            *)
(* savingsPct) are left out; resp is the status code of the last answer.   *)
(*                                                                         *)
(* The whole machine (WholeSpec) is too large to enumerate, so the         *)
(* properties are checked on sub-machines of it.  Spec, StaleSpec,         *)
(* LiveSpec, RefreshSpec, WorkerSpec, HoursSpec, ConfigSpec, StampSpec and *)
(* RescanSpec start in the state the coordinator is in after one library   *)
(* root has been added and scanned (InitScanned); ClaimSpec and            *)
(* ClaimTimedSpec start with two scanned items, PruneSpec with a long job  *)
(* history, ScanSpec and LockSpec with the empty document:                 *)
(*   Spec        every item, job and worker handler, the clock standing    *)
(*               still (the protocol within one second);                   *)
(*   StaleSpec   the clock advancing, with the handlers that create, touch *)
(*               and reconcile jobs;                                       *)
(*   LiveSpec    the clock advancing for ever, workers that die right      *)
(*               after a claim, and fairness of the clock, claim and list; *)
(*   ClaimSpec   the order in which ready items are claimed;               *)
(*   ScanSpec    entries added, scanned file by file and deleted;          *)
(*   PruneSpec   prune_old_jobs on a history longer than MAX_JOBS;         *)
(*   RefreshSpec refresh_item_after_transcode after a completed job;       *)
(*   WorkerSpec  the worker process of src/worker/worker.py, step by step, *)
(*               against the coordinator;                                  *)
(*   LockSpec    threads calling update_state and load_state under _LOCK;  *)
(*   HoursSpec   the worker's work hours, the clock advancing by minutes;  *)
(*   ConfigSpec  the configuration edited while items are claimed;         *)
(*   ClaimTimedSpec  claims that reconcile stale jobs, with two items;     *)
(*   StampSpec   the requests that stamp a job, over minutes of the clock; *)
(*   RescanSpec  a scan of the entry while the worker transcodes the item. *)
(***************************************************************************)
EXTENDS Integers, Sequences, FiniteSets, TLC

VARIABLES entries, items, jobs, workers, scanStatus, config,
          disk, now, ids, scan, resp, wk, lk

vars == <<entries, items, jobs, workers, scanStatus, config,
          disk, now, ids, scan, resp, wk, lk>>

\* wk: the worker process (src/worker/worker.py); lk: the lock of the state
\* store with the threads that queue on it (src/server/state.py)
procVars == <<wk, lk>>

docVars == <<entries, items, jobs, workers, scanStatus, config>>

-----------------------------------------------------------------------------
(* Program constants *)

MAX_AGE_SEC == 180
WORKER_GRACE_SEC == 120
MAX_JOBS == 100
PRUNE_MAX_AGE_HOURS == 24
LOG_TAIL_MAX == 200
MIB == 1048576

\* Python None in an integer field (a timestamp, an id, a size)
None == -1

(* Bounds of the model *)

MaxTicks == 4
MaxJobs == 2
MaxItems == 2
MaxEntries == 1
MaxTranscodes == 2
MaxThreads == 2
MaxOps == 3

\* The clock advances in steps that hit both reconciliation thresholds exactly.
TickSec == MAX_AGE_SEC - WORKER_GRACE_SEC

WorkerIds == {"wrk_a"}
LiveWorkerIds == {"wrk_a", "wrk_b"}
Roots == {"/media/a"}
FilesUnder(root) == IF root = "/media/a" THEN <<"/media/a/x.mkv", "/media/a/y.mp4">> ELSE <<>>
Paths == {"/media/a/x.mkv", "/media/a/y.mp4"}

\* the request threads of the server and the store calls a handler makes:
\* update_state with a mutator that returns, update_state with a mutator that
\* raises HTTPException, load_state
Threads == 1..MaxThreads
StoreCalls == {"update", "update_raises", "load"}

JobIds == 1..MaxJobs
ItemIds == 1..MaxItems
EntryIds == 1..MaxEntries

-----------------------------------------------------------------------------
(* Generic helpers over the document's lists *)

Range(s) == {s[k] : k \in DOMAIN s}

\* f itself (f @@ <<>> = f), written so that TLC tabulates f once instead of
\* evaluating its defining expression again at every application
Tabulated(f) == f @@ <<>>

\* [x for (i, x) in enumerate(s) if i in keep]: the subsequence at the indices keep
SelectByIndex(s, keep) ==
    LET pos == Tabulated([i \in keep |-> Cardinality({m \in keep : m <= i})])
    IN  [p \in 1..Cardinality(keep) |-> s[CHOOSE i \in keep : pos[i] = p]]

\* next((x for x in s if P(x)), None): the first of the matching indices, 0 when none
FirstIdx(matching) ==
    IF matching = {} THEN 0 ELSE CHOOSE k \in matching : \A m \in matching : k <= m

\* {x.get("id"): x for x in s}.get(id): a later duplicate wins
LastIdx(matching) ==
    IF matching = {} THEN 0 ELSE CHOOSE k \in matching : \A m \in matching : m <= k

JobIdx(js, id) == FirstIdx({q \in DOMAIN js : js[q].id = id})
ItemIdx(is, id) == FirstIdx({q \in DOMAIN is : is[q].id = id})
EntryIdx(es, id) == FirstIdx({q \in DOMAIN es : es[q].id = id})
WorkerIdx(ws, id) == FirstIdx({q \in DOMAIN ws : ws[q].id = id})

IsActive(job) == job.status \in {"claimed", "running"}
IsTerminal(job) == job.status \in {"done", "failed"}

\* f"{stat.st_size}:{int(stat.st_mtime)}"
Fingerprint(size, mtime) == ToString(size) \o ":" \o ToString(mtime)

-----------------------------------------------------------------------------
(* src/server/scan.py *)

NoMeta == [ok |-> FALSE, durationSec |-> 0, height |-> 0]

\* probe_media: {} when ffprobe is missing or fails, else the metadata dict
probe_media(dsk, path) ==
    IF path \in DOMAIN dsk /\ dsk[path].exists THEN dsk[path].probe ELSE NoMeta

\* item.update(metadata): an empty dict changes nothing
UpdateMeta(item, meta) ==
    IF meta.ok
    THEN [item EXCEPT !.durationSec = meta.durationSec, !.height = meta.height]
    ELSE item

ZeroRatio == [targetBytes |-> 0, savingsBytes |-> 0]

\* the first sorted key with height <= key, else sorted_keys[-1]
TargetKey(keys, height) ==
    IF \E k \in keys : height <= k
    THEN CHOOSE k \in keys : height <= k /\ \A m \in keys : height <= m => k <= m
    ELSE CHOOSE k \in keys : \A m \in keys : m <= k

\* floor(log2(n / dn)) of a positive ratio
FloorLog2(n, dn) ==
    IF n >= dn
    THEN LET q == n \div dn
         IN  CHOOSE b \in 0..30 : 2^b <= q /\ (b = 30 \/ q < 2^(b + 1))
    ELSE CHOOSE b \in -6..-1 : n * 2^(-b) >= dn /\ n * 2^(-b - 1) < dn

\* duration_sec / 60.0 * float(mb) in IEEE double arithmetic, against the
\* exact d * mb / 60.  The quotient d / 60.0 is rounded to 53 bits and the
\* product is rounded again; the last factor 1024 * 1024 is exact.  Only a
\* product whose exact value times 2^20 is an integer (15 divides d * mb) can
\* end on the other side of an integer.  With b = floor(log2(d / 60)) the
\* rounded quotient is off by rem / 60 or (60 - rem) / 60 units of 2^(b-52),
\* rem = d * 2^(52-b) mod 60, and the product by c = mb times that, rounded
\* to the s low bits the product has to drop.  The result: sign 0 when the
\* float product is the exact one, else sign 1 (above) or -1 (below) and the
\* distance cr in units of 2^(b-52).
FloatDrift(d, mb) ==
    IF d % 60 = 0 \/ (d * mb) % 15 # 0
    THEN [sign |-> 0, cr |-> 0, b |-> 0]
    ELSE LET b == FloorLog2(d, 60)
             pow == <<4, 8, 16, 32>>[((50 - b) % 4) + 1]
             rem == ((d % 60) * pow) % 60
             d60 == IF rem < 30 THEN -rem ELSE 60 - rem
             c == (mb * d60) \div 60
             a == IF c < 0 THEN -c ELSE c
             n4 == (d * mb) \div 15
             ispow2 == n4 = 2^FloorLog2(n4, 1)
             s == FloorLog2(n4, 1) - 2 - b - (IF ispow2 /\ c < 0 THEN 1 ELSE 0)
             m == IF s <= 0 THEN a
                  ELSE LET q == a \div 2^s
                           r == a % 2^s
                       IN  IF 2 * r > 2^s \/ (2 * r = 2^s /\ q % 2 = 1)
                           THEN (q + 1) * 2^s ELSE q * 2^s
         IN  IF c = 0 \/ (s > 0 /\ a <= 2^(s - 1))
             THEN [sign |-> 0, cr |-> 0, b |-> 0]
             ELSE [sign |-> IF c < 0 THEN -1 ELSE 1, cr |-> m, b |-> b]

\* int(duration_sec / 60.0 * mb * 1024 * 1024): the exact value truncated,
\* computed without leaving 32 bits, and one less when the float product fell
\* just below an integer
TargetBytes(durationSec, mb) ==
    LET dm == durationSec * mb
        exact == (dm \div 60) * MIB + ((dm % 60) * MIB) \div 60
    IN  IF FloatDrift(durationSec, mb).sign = -1 THEN exact - 1 ELSE exact

\* int(size_bytes - target_bytes) truncates toward zero.  The float
\* subtraction keeps the drift of target_bytes only when it is more than
\* half a unit in the last place of the difference.
SavingsBytes(sizeBytes, durationSec, mb) ==
    LET dm == durationSec * mb
        exact == (dm % 60) * MIB % 60 = 0
        whole == sizeBytes - ((dm \div 60) * MIB + ((dm % 60) * MIB) \div 60)
        drift == FloatDrift(durationSec, mb)
    IN  IF drift.sign # 0
        THEN IF whole = 0 \/ (drift.sign > 0) # (whole > 0)
             THEN whole
             ELSE LET a == IF whole < 0 THEN -whole ELSE whole
                      L == FloorLog2(a, 1) - (IF a = 2^FloorLog2(a, 1) THEN 1 ELSE 0)
                      k == 21 + drift.b - L
                      kept == IF k >= 1 THEN TRUE
                              ELSE IF k < -6 THEN FALSE
                              ELSE drift.cr > 2^(-k)
                  IN  IF kept THEN whole - drift.sign ELSE whole
        ELSE IF exact \/ whole <= 0 THEN whole ELSE whole - 1

compute_ratio(item, cfg) ==
    LET buckets == cfg.targetMbPerMinByHeight
    IN  IF item.durationSec <= 0 \/ item.sizeBytes <= 0 \/ item.height <= 0
        THEN ZeroRatio
        ELSE IF DOMAIN buckets = {}
        THEN ZeroRatio
        ELSE LET key == TargetKey(DOMAIN buckets, item.height)
                 mb == buckets[key]
             IN  IF mb = 0
                 THEN ZeroRatio
                 ELSE [targetBytes |-> TargetBytes(item.durationSec, mb),
                       savingsBytes |-> SavingsBytes(item.sizeBytes, item.durationSec, mb)]

\* list_media_files: the regular files under root that exist now
list_media_files(dsk, root) ==
    SelectSeq(FilesUnder(root), LAMBDA p : dsk[p].exists)

-----------------------------------------------------------------------------
(* src/server/app.py: helpers called inside mutators *)

\* variant of the refresh that does not take the size the worker reported
refresh_item_without_output_size(item, cfg, output_size, dsk, t) ==
    LET there == item.path \in DOMAIN dsk /\ dsk[item.path].exists
        statd == IF there
                 THEN [item EXCEPT !.sizeBytes = dsk[item.path].size,
                                   !.mtime = dsk[item.path].mtime,
                                   !.sourceFingerprint =
                                       Fingerprint(dsk[item.path].size, dsk[item.path].mtime)]
                 ELSE item
        probed == IF there THEN UpdateMeta(statd, probe_media(dsk, statd.path)) ELSE statd
        stamped == [probed EXCEPT !.scanAt = t]
    IN  [stamped EXCEPT !.ratio = compute_ratio(stamped, cfg)]

refresh_item_after_transcode(item, cfg, output_size, dsk, t) ==
    LET sized == IF output_size # None THEN [item EXCEPT !.sizeBytes = output_size] ELSE item
        there == sized.path \in DOMAIN dsk /\ dsk[sized.path].exists
        statd == IF there
                 THEN [sized EXCEPT !.sizeBytes = dsk[sized.path].size,
                                    !.mtime = dsk[sized.path].mtime,
                                    !.sourceFingerprint =
                                        Fingerprint(dsk[sized.path].size, dsk[sized.path].mtime)]
                 ELSE sized
        probed == IF there THEN UpdateMeta(statd, probe_media(dsk, statd.path)) ELSE statd
        stamped == [probed EXCEPT !.scanAt = t]
    IN  [stamped EXCEPT !.ratio = compute_ratio(stamped, cfg)]

\* worker_recent of cleanup_stale_jobs
WorkerRecent(ws, wid, t) ==
    LET k == LastIdx({q \in DOMAIN ws : ws[q].id = wid})
    IN  /\ k # 0
        /\ ws[k].lastHeartbeatAt # None
        /\ t - ws[k].lastHeartbeatAt < WORKER_GRACE_SEC

\* _parse_iso(job.get("lastUpdateAt")) or _parse_iso(job.get("claimedAt"))
LastUpdate(job) == IF job.lastUpdateAt # None THEN job.lastUpdateAt ELSE job.claimedAt

\* cleanup_stale_jobs without its status test: every job is looked at
StaleCandidateAnyStatus(job) == job.status \in {"claimed", "running", "done", "failed"}

\* the job is one the loop of cleanup_stale_jobs looks at
StaleCandidate(job) == IsActive(job)

\* the loop body of cleanup_stale_jobs reaches job["status"] = "failed"
IsStale(job, ws, t) ==
    /\ StaleCandidate(job)
    /\ ~WorkerRecent(ws, job.workerId, t)
    /\ LastUpdate(job) # None
    /\ t - LastUpdate(job) >= MAX_AGE_SEC

StaleError(age) == "Stale job (no updates for " \o ToString(age) \o "s)"

FailStale(job, t) ==
    [job EXCEPT !.status = "failed", !.finishedAt = t,
                !.error = StaleError(t - LastUpdate(job))]

\* cleanup_stale_jobs: the jobs are visited in list order, so an item named by
\* several stale jobs keeps the error of the last of them
cleanup_stale_jobs(js, is, ws, t) ==
    LET newJobs == [k \in DOMAIN js |->
                        IF IsStale(js[k], ws, t) THEN FailStale(js[k], t) ELSE js[k]]
        \* items_by_id: the last item with the id
        Mine(k, n) == IsStale(js[k], ws, t) /\ js[k].itemId = is[n].id
                      /\ n = LastIdx({q \in DOMAIN is : is[q].id = is[n].id})
        newItems == [n \in DOMAIN is |->
                        IF \E k \in DOMAIN js : Mine(k, n)
                        THEN LET last == CHOOSE k \in DOMAIN js :
                                     Mine(k, n) /\ \A m \in DOMAIN js : Mine(m, n) => m <= k
                             IN  [is[n] EXCEPT !.status = "failed", !.ready = FALSE,
                                               !.lastError = newJobs[last].error]
                        ELSE is[n]]
    IN  [jobs |-> newJobs, items |-> newItems,
         updated |-> \E k \in DOMAIN js : IsStale(js[k], ws, t)]

\* get_finished_time of prune_old_jobs; None stands for datetime.min
FinishedTime(job) == IF job.finishedAt # None THEN job.finishedAt ELSE job.claimedAt

\* finished.sort(key=get_finished_time, reverse=True): stable, newest first.
\* The job at index k goes to the position that counts the jobs sorted before
\* it: those with a later time, and those with the same time that precede it.
SortNewestFirst(s) ==
    LET f == Tabulated(s)
        key == Tabulated([k \in DOMAIN f |-> FinishedTime(f[k])])
        rank == Tabulated([k \in DOMAIN f |->
                    Cardinality({m \in DOMAIN f :
                        \/ key[m] > key[k]
                        \/ key[m] = key[k] /\ m <= k})])
        at == Tabulated([p \in DOMAIN f |-> CHOOSE k \in DOMAIN f : rank[k] = p])
    IN  [p \in DOMAIN f |-> f[at[p]]]

\* variant of the keep loop that stops keeping recent jobs at half the cap
KeepFinishedHalfCap(finished, t) ==
    SubSeq(finished, 1, IF Len(finished) < MAX_JOBS \div 2 THEN Len(finished)
                        ELSE MAX_JOBS \div 2)

\* The keep loop of prune_old_jobs over the sorted jobs. A job is kept when it
\* is recent and len(kept_finished) < max_jobs, or when len(kept_finished) <
\* max_jobs // 2. len(kept_finished) at the i-th iteration is i-1 for the first
\* max_jobs // 2 jobs (both branches keep them all); from then on only recent
\* jobs are added, up to max_jobs.
KeepFinished(finished, t) ==
    LET f == Tabulated(finished)
        half == MAX_JOBS \div 2
        recent == Tabulated([i \in DOMAIN f |->
                      LET ft == FinishedTime(f[i])
                      IN  ft # None /\ t - ft < PRUNE_MAX_AGE_HOURS * 3600])
        lenKept == Tabulated([i \in DOMAIN f |->
                      IF i - 1 <= half THEN i - 1
                      ELSE LET n == half + Cardinality({m \in (half + 1)..(i - 1) : recent[m]})
                           IN  IF n < MAX_JOBS THEN n ELSE MAX_JOBS])
        keep == {i \in DOMAIN f : \/ recent[i] /\ lenKept[i] < MAX_JOBS
                                  \/ lenKept[i] < half}
    IN  SelectByIndex(f, keep)

prune_old_jobs(js, t) ==
    IF Len(js) <= MAX_JOBS THEN js
    ELSE LET active == SelectSeq(js, IsActive)
             finished == SelectSeq(js, LAMBDA j : ~IsActive(j))
             newJobs == active \o KeepFinished(SortNewestFirst(finished), t)
         IN  IF Len(newJobs) < Len(js) THEN newJobs ELSE js

\* the claim/heartbeat upsert lookup: by id first, then by name
FindWorker(ws, wid, wname) ==
    LET byId == IF wid # "" THEN FirstIdx({q \in DOMAIN ws : ws[q].id = wid}) ELSE 0
    IN  IF byId # 0 THEN byId
        ELSE IF wname # "" THEN FirstIdx({q \in DOMAIN ws : ws[q].name = wname}) ELSE 0

\* log_tail[:200] + "..." when longer than 200
TruncateLogTail(s) ==
    IF Len(s) > LOG_TAIL_MAX THEN SubSeq(s, 1, LOG_TAIL_MAX) \o "..." ELSE s

-----------------------------------------------------------------------------
(* The state after construction: default_state() of src/server/state.py *)

DefaultTargets == (480 :> 6) @@ (720 :> 10) @@ (1080 :> 16) @@ (2160 :> 32)

DefaultConfig ==
    [baselineArgs |-> "-f av_mkv -q 20", targetMbPerMinByHeight |-> DefaultTargets]

DefaultScanStatus ==
    [active |-> FALSE, entryId |-> None, total |-> 0, done |-> 0, currentPath |-> "none"]

\* what an iteration of the scan holds between its stat and its mutator
NoStat == [size |-> None, mtime |-> None, probed |-> FALSE, metadata |-> NoMeta]

IdleScan == [pc |-> "idle", entryId |-> None, files |-> <<>>, total |-> 0, done |-> 0,
             snapshot |-> <<>>, stat |-> NoStat]

\* the worker between jobs: nothing claimed, the cache directory empty, no
\* dest_tmp written.
\* hours is workHours of its configuration (none: it works at any time) and
\* boot the minute of the day its wall clock shows when the coordinator clock
\* shows 0.
IdleWorker ==
    [pc |-> "idle", job |-> None, cache |-> {}, tmp |-> "none", error |-> "",
     hours |-> <<>>, boot |-> 0]

\* a request thread outside the store
IdleThread == [pc |-> "idle", kind |-> "none", op |-> None, state |-> <<>>]

\* the store at rest: _LOCK free, every request thread outside the store, no
\* mutation persisted yet.  file is the persisted document as the sequence of
\* the mutations applied to it, returned the mutations whose update_state has
\* returned, nextOp the number of the next request.
FreeLock ==
    [holder |-> None, th |-> [t \in Threads |-> IdleThread], file |-> <<>>,
     returned |-> {}, nextOp |-> 1]

\* the media library on disk: one file present, one not there yet
InitialDisk ==
    ("/media/a/x.mkv" :> [exists |-> TRUE, size |-> 1000, mtime |-> 1700,
                          probe |-> [ok |-> TRUE, durationSec |-> 3600, height |-> 1080]])
    @@
    ("/media/a/y.mp4" :> [exists |-> FALSE, size |-> 2000, mtime |-> 1701,
                          probe |-> [ok |-> TRUE, durationSec |-> 60, height |-> 4000]])

Init ==
    /\ entries = <<>>
    /\ items = <<>>
    /\ jobs = <<>>
    /\ workers = <<>>
    /\ scanStatus = DefaultScanStatus
    /\ config = DefaultConfig
    /\ disk = InitialDisk
    /\ now = 0
    /\ ids = [ent |-> 1, itm |-> 1, job |-> 1]
    /\ scan = IdleScan
    /\ resp = 0
    /\ wk = IdleWorker
    /\ lk = FreeLock

\* the handler's HTTP status code
Respond(code) == resp' = code

\* a mutator that raised: update_state never reaches _write_state_no_lock
Refuse(code) ==
    /\ Respond(code)
    /\ UNCHANGED <<docVars, disk, now, ids, scan>>

-----------------------------------------------------------------------------
(* Time *)

Tick ==
    /\ now + TickSec <= MaxTicks * TickSec
    /\ now' = now + TickSec
    /\ UNCHANGED <<docVars, disk, ids, scan, resp>>

-----------------------------------------------------------------------------
(* The environment of the scan *)

\* A media file is written under a root by something other than the suite
\* (the environment that os.walk in list_media_files observes).
file_appears(path) ==
    /\ ~disk[path].exists
    /\ disk' = [disk EXCEPT ![path].exists = TRUE]
    /\ UNCHANGED <<docVars, now, ids, scan, resp>>

-----------------------------------------------------------------------------
(* Entries *)

\* POST /api/entries
add_entry(path) ==
    /\ ids.ent <= MaxEntries
    /\ entries' = Append(entries, [id |-> ids.ent, path |-> path, args |-> ""])
    /\ ids' = [ids EXCEPT !.ent = @ + 1]
    /\ Respond(200)
    /\ UNCHANGED <<items, jobs, workers, scanStatus, config, disk, now, scan>>

\* variant of delete_entry that removes the entry and its items but keeps the jobs
delete_entry_keep_jobs(entry_id) ==
    IF EntryIdx(entries, entry_id) = 0
    THEN Refuse(404)
    ELSE IF \E k \in DOMAIN items :
                items[k].entryId = entry_id /\ items[k].status = "processing"
    THEN Refuse(409)
    ELSE /\ entries' = SelectSeq(entries, LAMBDA e : e.id # entry_id)
         /\ items' = SelectSeq(items, LAMBDA i : i.entryId # entry_id)
         /\ Respond(200)
         /\ UNCHANGED <<jobs, workers, scanStatus, config, disk, now, ids, scan>>

\* DELETE /api/entries/{entry_id}
delete_entry(entry_id) ==
    IF EntryIdx(entries, entry_id) = 0
    THEN Refuse(404)
    ELSE IF \E k \in DOMAIN items :
                items[k].entryId = entry_id /\ items[k].status = "processing"
    THEN Refuse(409)
    ELSE LET removed == {items[k].id : k \in {m \in DOMAIN items : items[m].entryId = entry_id}}
         IN  /\ entries' = SelectSeq(entries, LAMBDA e : e.id # entry_id)
             /\ items' = SelectSeq(items, LAMBDA i : i.entryId # entry_id)
             /\ jobs' = SelectSeq(jobs, LAMBDA j : j.itemId \notin removed)
             /\ Respond(200)
             /\ UNCHANGED <<workers, scanStatus, config, disk, now, ids, scan>>

-----------------------------------------------------------------------------
(* POST /api/entries/{entry_id}/scan: load_state, then one update_state per file *)

\* items_snapshot = {item.get("path"): item for item in items}
Snapshot(is) ==
    [p \in {is[k].path : k \in DOMAIN is} |->
        LET k == LastIdx({q \in DOMAIN is : is[q].path = p})
        IN  [sourceFingerprint |-> is[k].sourceFingerprint, scanAt |-> is[k].scanAt]]

\* the handler up to the first update_state (the scanStatus reset)
scan_begin(entry_id) ==
    /\ scan.pc = "idle"
    /\ IF EntryIdx(entries, entry_id) = 0
       THEN Refuse(404)
       ELSE LET entry == entries[EntryIdx(entries, entry_id)]
                files == list_media_files(disk, entry.path)
            IN  /\ scan' = [pc |-> "files", entryId |-> entry_id, files |-> files,
                            total |-> Len(files), done |-> 0, snapshot |-> Snapshot(items),
                            stat |-> NoStat]
                /\ scanStatus' = [active |-> TRUE, entryId |-> entry_id, total |-> Len(files),
                                  done |-> 0, currentPath |-> "none"]
                /\ Respond(0)
                /\ UNCHANGED <<entries, items, jobs, workers, config, disk, now, ids>>

NewItem(id, entry_id, path, size, mtime) ==
    [id |-> id, entryId |-> entry_id, path |-> path, sizeBytes |-> size, mtime |-> mtime,
     durationSec |-> 0, height |-> 0, scanAt |-> None, ready |-> FALSE, status |-> "idle",
     lastJobId |-> None, lastError |-> "", lastTranscodeAt |-> None, transcodeCount |-> 0,
     sourceFingerprint |-> Fingerprint(size, mtime), ratio |-> ZeroRatio]

\* the same block, taking the re-probed item for a new one
ScanUpdateAsNew(item, fingerprint, metadata, size, mtime, cfg, t) ==
    IF item.sourceFingerprint # fingerprint \/ item.scanAt = None
    THEN LET m == [UpdateMeta(item, metadata) EXCEPT
                      !.scanAt = t, !.sizeBytes = size, !.mtime = mtime,
                      !.sourceFingerprint = fingerprint, !.ready = FALSE,
                      !.status = "idle", !.lastJobId = None]
         IN  [m EXCEPT !.ratio = compute_ratio(m, cfg)]
    ELSE item

\* the `if item.get("sourceFingerprint") != fingerprint or not item.get("scanAt")` block
ScanUpdate(item, fingerprint, metadata, size, mtime, cfg, t) ==
    IF item.sourceFingerprint # fingerprint \/ item.scanAt = None
    THEN LET m == [UpdateMeta(item, metadata) EXCEPT
                      !.scanAt = t, !.sizeBytes = size, !.mtime = mtime,
                      !.sourceFingerprint = fingerprint]
         IN  [m EXCEPT !.ratio = compute_ratio(m, cfg)]
    ELSE item

\* one iteration of `for path in files`, outside the store: path.stat() and,
\* when the snapshot calls for it, probe_media.  A file that cannot be stat-ed
\* only moves scanStatus on.
scan_stat ==
    /\ scan.pc = "files"
    /\ scan.files # <<>>
    /\ LET path == Head(scan.files)
           done == scan.done + 1
       IN  IF ~disk[path].exists
           THEN /\ scan' = [scan EXCEPT !.files = Tail(@), !.done = done]
                /\ scanStatus' = [scanStatus EXCEPT !.active = TRUE, !.entryId = scan.entryId,
                                                    !.total = scan.total, !.done = done,
                                                    !.currentPath = path]
                /\ Respond(0)
                /\ UNCHANGED <<entries, items, jobs, workers, config, disk, now, ids>>
           ELSE LET size == disk[path].size
                    mtime == disk[path].mtime
                    needs_scan == \/ path \notin DOMAIN scan.snapshot
                                  \/ scan.snapshot[path].sourceFingerprint
                                        # Fingerprint(size, mtime)
                                  \/ scan.snapshot[path].scanAt = None
                IN  /\ scan' = [scan EXCEPT !.pc = "apply",
                                   !.stat = [size |-> size, mtime |-> mtime,
                                             probed |-> needs_scan,
                                             metadata |-> IF needs_scan
                                                          THEN probe_media(disk, path)
                                                          ELSE NoMeta]]
                    /\ UNCHANGED <<docVars, disk, now, ids, resp>>

\* the per-file mutator of the iteration, with what the stat and the probe
\* returned
scan_file ==
    /\ scan.pc = "apply"
    /\ LET path == Head(scan.files)
           done == scan.done + 1
           size == scan.stat.size
           mtime == scan.stat.mtime
           fingerprint == Fingerprint(size, mtime)
           metadata == scan.stat.metadata
           k == FirstIdx({q \in DOMAIN items : items[q].path = path})
       IN  /\ scan' = [scan EXCEPT !.pc = "files", !.files = Tail(@), !.done = done,
                                   !.stat = NoStat]
           /\ scanStatus' = [scanStatus EXCEPT !.active = TRUE, !.entryId = scan.entryId,
                                               !.total = scan.total, !.done = done,
                                               !.currentPath = path]
           /\ Respond(0)
           /\ IF k = 0
              THEN /\ ids.itm <= MaxItems
                   /\ items' = Append(items,
                          ScanUpdate(NewItem(ids.itm, scan.entryId, path, size, mtime),
                                     fingerprint, metadata, size, mtime, config, now))
                   /\ ids' = [ids EXCEPT !.itm = @ + 1]
                   /\ UNCHANGED <<entries, jobs, workers, config, disk, now>>
              ELSE /\ items' = [items EXCEPT ![k] =
                          ScanUpdate(@, fingerprint, metadata, size, mtime, config, now)]
                   /\ UNCHANGED <<entries, jobs, workers, config, disk, now, ids>>

\* finish_mutator, and the handler's answer
scan_finish ==
    /\ scan.pc = "files"
    /\ scan.files = <<>>
    /\ scanStatus' = [scanStatus EXCEPT !.active = FALSE, !.entryId = scan.entryId,
                                        !.total = scan.total, !.done = scan.done,
                                        !.currentPath = "none"]
    /\ scan' = IdleScan
    /\ Respond(200)
    /\ UNCHANGED <<entries, items, jobs, workers, config, disk, now, ids>>

-----------------------------------------------------------------------------
(* Items *)

\* GET /api/items and GET /api/jobs run the same mutator
ListMutator ==
    LET c == cleanup_stale_jobs(jobs, items, workers, now)
    IN  /\ jobs' = prune_old_jobs(c.jobs, now)
        /\ items' = c.items
        /\ Respond(200)
        /\ UNCHANGED <<entries, workers, scanStatus, config, disk, now, ids, scan>>

list_items == ListMutator

\* variant of set_ready without the conflict check on a processing item
set_ready_unguarded(item_id, ready) ==
    LET k == ItemIdx(items, item_id)
    IN  IF k = 0 THEN Refuse(404)
        ELSE /\ items' = [items EXCEPT ![k].ready = ready,
                                       ![k].status = IF ready THEN "queued" ELSE "idle"]
             /\ Respond(200)
             /\ UNCHANGED <<entries, jobs, workers, scanStatus, config, disk, now, ids, scan>>

\* POST /api/items/{item_id}/ready
set_ready(item_id, ready) ==
    LET k == ItemIdx(items, item_id)
    IN  IF k = 0 THEN Refuse(404)
        ELSE IF items[k].status = "processing" THEN Refuse(409)
        ELSE /\ items' = [items EXCEPT ![k].ready = ready,
                                       ![k].status = IF ready THEN "queued" ELSE "idle"]
             /\ Respond(200)
             /\ UNCHANGED <<entries, jobs, workers, scanStatus, config, disk, now, ids, scan>>

\* POST /api/items/{item_id}/reset
reset_item(item_id) ==
    LET k == ItemIdx(items, item_id)
    IN  IF k = 0 THEN Refuse(404)
        ELSE IF items[k].status = "processing" THEN Refuse(409)
        ELSE /\ items' = [items EXCEPT ![k].status = "idle", ![k].ready = FALSE,
                                       ![k].lastError = ""]
             /\ Respond(200)
             /\ UNCHANGED <<entries, jobs, workers, scanStatus, config, disk, now, ids, scan>>

\* POST /api/items/{item_id}/path
update_item_path(item_id, path) ==
    LET k == ItemIdx(items, item_id)
    IN  IF k = 0 THEN Refuse(404)
        ELSE /\ items' = [items EXCEPT ![k].path = path]
             /\ Respond(200)
             /\ UNCHANGED <<entries, jobs, workers, scanStatus, config, disk, now, ids, scan>>

\* DELETE /api/items/{item_id}
delete_item(item_id) ==
    LET k == ItemIdx(items, item_id)
    IN  IF k = 0 THEN Refuse(404)
        ELSE IF items[k].status = "processing" THEN Refuse(409)
        ELSE /\ items' = SelectSeq(items, LAMBDA i : i.id # item_id)
             /\ Respond(200)
             /\ UNCHANGED <<entries, jobs, workers, scanStatus, config, disk, now, ids, scan>>

-----------------------------------------------------------------------------
(* Configuration *)

\* POST /api/config: the fields of the payload that are not None are stored
\* as they come; payload.given names those fields
set_config(payload) ==
    /\ config' = [baselineArgs |->
                      IF "baselineArgs" \in payload.given
                      THEN payload.baselineArgs ELSE config.baselineArgs,
                  targetMbPerMinByHeight |->
                      IF "targetMbPerMinByHeight" \in payload.given
                      THEN payload.targetMbPerMinByHeight
                      ELSE config.targetMbPerMinByHeight]
    /\ Respond(200)
    /\ UNCHANGED <<entries, items, jobs, workers, scanStatus, disk, now, ids, scan>>

-----------------------------------------------------------------------------

(* Workers *)

NewWorker(wid, wname, t) ==
    [id |-> wid, name |-> IF wname # "" THEN wname ELSE "worker", lastHeartbeatAt |-> t]

\* POST /api/workers/heartbeat
worker_heartbeat(wid, wname) ==
    LET k == WorkerIdx(workers, wid)
    IN  /\ workers' = IF k = 0
                      THEN Append(workers, NewWorker(wid, wname, now))
                      ELSE [workers EXCEPT ![k].name = IF wname # "" THEN wname ELSE @,
                                           ![k].lastHeartbeatAt = now]
        /\ Respond(200)
        /\ UNCHANGED <<entries, items, jobs, scanStatus, config, disk, now, ids, scan>>

\* DELETE /api/workers/{worker_id}
delete_worker(wid) ==
    IF WorkerIdx(workers, wid) = 0
    THEN Refuse(404)
    ELSE /\ workers' = SelectSeq(workers, LAMBDA w : w.id # wid)
         /\ Respond(200)
         /\ UNCHANGED <<entries, items, jobs, scanStatus, config, disk, now, ids, scan>>

-----------------------------------------------------------------------------
(* Jobs *)

\* variant of the job record of a claim that leaves lastUpdateAt unset
NewJobUnstamped(id, item_id, wid, t) ==
    [id |-> id, itemId |-> item_id, workerId |-> wid, status |-> "claimed",
     claimedAt |-> t, startedAt |-> None, finishedAt |-> None, error |-> "",
     cancelRequested |-> FALSE, lastUpdateAt |-> None, progress |-> <<>>]

NewJob(id, item_id, wid, t) ==
    [id |-> id, itemId |-> item_id, workerId |-> wid, status |-> "claimed",
     claimedAt |-> t, startedAt |-> None, finishedAt |-> None, error |-> "",
     cancelRequested |-> FALSE, lastUpdateAt |-> t, progress |-> <<>>]

\* variant of the claim scan that takes the last match instead of the first
ClaimableIdxLast(is) == LastIdx({q \in DOMAIN is : is[q].ready /\ is[q].status = "queued"})

\* the item claim_job picks: the first with ready and status queued
ClaimableIdx(is) == FirstIdx({q \in DOMAIN is : is[q].ready /\ is[q].status = "queued"})

\* f"{args} {entry.get('args')}".strip() when the entry has args
ClaimArgs(cfg, es, entry_id) ==
    LET e == EntryIdx(es, entry_id)
    IN  IF e # 0 /\ es[e].args # "" THEN cfg.baselineArgs \o " " \o es[e].args
        ELSE cfg.baselineArgs

\* POST /api/jobs/claim
claim_job(wid, wname) ==
    LET c == cleanup_stale_jobs(jobs, items, workers, now)
        w == FindWorker(workers, wid, wname)
        ws == IF w = 0
              THEN Append(workers, NewWorker(wid, wname, now))
              ELSE [workers EXCEPT ![w].lastHeartbeatAt = now]
        worker_id == IF w = 0 THEN wid ELSE workers[w].id
        k == ClaimableIdx(c.items)
    IN  /\ workers' = ws
        /\ IF k = 0
           THEN /\ jobs' = c.jobs
                /\ items' = c.items
                /\ Respond(204)
                /\ UNCHANGED <<entries, scanStatus, config, disk, now, ids, scan>>
           ELSE /\ ids.job <= MaxJobs
                /\ jobs' = Append(c.jobs, NewJob(ids.job, c.items[k].id, worker_id, now))
                /\ items' = [c.items EXCEPT ![k].status = "processing",
                                            ![k].lastJobId = ids.job,
                                            ![k].lastError = ""]
                /\ ids' = [ids EXCEPT !.job = @ + 1]
                /\ Respond(200)
                /\ UNCHANGED <<entries, scanStatus, config, disk, now, scan>>

list_jobs == ListMutator

\* variant of the cancel mark that flips the flag instead of setting it
CancelAllToggle(job, t) ==
    [job EXCEPT !.cancelRequested = ~@,
                !.progress = ("logTail" :> "Cancel requested") @@ @,
                !.lastUpdateAt = t]

\* variant of the cancel mark that stamps the job with its claim time
CancelAllMarkClaimStamp(job, t) ==
    [job EXCEPT !.cancelRequested = TRUE,
                !.progress = ("logTail" :> "Cancel requested") @@ @,
                !.lastUpdateAt = job.claimedAt]

\* the cancel request cancel_all_jobs writes on one active job
CancelAllMark(job, t) ==
    [job EXCEPT !.cancelRequested = TRUE,
                !.progress = ("logTail" :> "Cancel requested") @@ @,
                !.lastUpdateAt = t]

\* POST /api/jobs/cancel-all
cancel_all_jobs ==
    /\ jobs' = [k \in DOMAIN jobs |->
                    IF IsActive(jobs[k]) THEN CancelAllMark(jobs[k], now) ELSE jobs[k]]
    /\ Respond(200)
    /\ UNCHANGED <<entries, items, workers, scanStatus, config, disk, now, ids, scan>>

\* what the mutator of delete_job returns for a job of the list: the body of
\* the answer
delete_job_result(js, job_id) ==
    IF IsActive(js[JobIdx(js, job_id)])
    THEN [ok |-> FALSE, cancelRequested |-> TRUE]
    ELSE [ok |-> TRUE]

\* variant of delete_job that removes the job whatever its status
delete_job_any_status(job_id) ==
    LET k == JobIdx(jobs, job_id)
    IN  IF k = 0 THEN Refuse(404)
        ELSE /\ jobs' = SelectSeq(jobs, LAMBDA j : j.id # job_id)
             /\ items' = [n \in DOMAIN items |->
                             IF items[n].lastJobId = job_id
                             THEN [items[n] EXCEPT !.lastJobId = None] ELSE items[n]]
             /\ Respond(200)
             /\ UNCHANGED <<entries, workers, scanStatus, config, disk, now, ids, scan>>

\* DELETE /api/jobs/{job_id}
delete_job(job_id) ==
    LET k == JobIdx(jobs, job_id)
    IN  IF k = 0 THEN Refuse(404)
        ELSE IF IsActive(jobs[k])
        THEN /\ jobs' = [jobs EXCEPT ![k].cancelRequested = TRUE]
             /\ Respond(200)
             /\ UNCHANGED <<entries, items, workers, scanStatus, config, disk, now, ids, scan>>
        ELSE /\ jobs' = SelectSeq(jobs, LAMBDA j : j.id # job_id)
             /\ items' = [n \in DOMAIN items |->
                             IF items[n].lastJobId = job_id
                             THEN [items[n] EXCEPT !.lastJobId = None] ELSE items[n]]
             /\ Respond(200)
             /\ UNCHANGED <<entries, workers, scanStatus, config, disk, now, ids, scan>>

\* POST /api/jobs/{job_id}/start
job_start(job_id) ==
    LET k == JobIdx(jobs, job_id)
    IN  IF k = 0 THEN Refuse(404)
        ELSE /\ jobs' = [jobs EXCEPT ![k].status = "running", ![k].startedAt = now,
                                     ![k].lastUpdateAt = now]
             /\ Respond(200)
             /\ UNCHANGED <<entries, items, workers, scanStatus, config, disk, now, ids, scan>>

\* math.isfinite(payload.pct)
IsFinite(pct) == pct \notin {"nan", "inf", "-inf"}

\* the progress dict after the three `if payload.x is not None` blocks
MergeProgress(progress, payload) ==
    LET p1 == IF payload.pct # "none" /\ IsFinite(payload.pct)
              THEN ("pct" :> payload.pct) @@ progress ELSE progress
        p2 == IF payload.etaSec # None THEN ("etaSec" :> payload.etaSec) @@ p1 ELSE p1
    IN  IF payload.logTail # "none"
        THEN ("logTail" :> TruncateLogTail(payload.logTail)) @@ p2 ELSE p2

\* POST /api/jobs/{job_id}/progress
job_progress(job_id, payload) ==
    LET k == JobIdx(jobs, job_id)
    IN  IF k = 0
        THEN /\ Respond(204)
             /\ UNCHANGED <<docVars, disk, now, ids, scan>>
        ELSE /\ jobs' = [jobs EXCEPT ![k].progress = MergeProgress(@, payload),
                                     ![k].lastUpdateAt = now]
             /\ Respond(200)
             /\ UNCHANGED <<entries, items, workers, scanStatus, config, disk, now, ids, scan>>

\* POST /api/jobs/{job_id}/complete
job_complete(job_id, output_size) ==
    LET k == JobIdx(jobs, job_id)
        n == IF k = 0 THEN 0 ELSE ItemIdx(items, jobs[k].itemId)
    IN  IF k = 0 \/ n = 0 THEN Refuse(404)
        ELSE /\ items[n].transcodeCount < MaxTranscodes
             /\ jobs' = [jobs EXCEPT ![k].status = "done", ![k].finishedAt = now,
                                     ![k].lastUpdateAt = now]
             /\ items' = [items EXCEPT ![n] =
                    refresh_item_after_transcode(
                        [@ EXCEPT !.status = "done", !.ready = FALSE, !.lastError = "",
                                  !.lastTranscodeAt = now,
                                  !.transcodeCount = @ + 1],
                        config, output_size, disk, now)]
             /\ Respond(200)
             /\ UNCHANGED <<entries, workers, scanStatus, config, disk, now, ids, scan>>

\* variant of the fail handler that leaves the item's ready flag alone
job_fail_keeps_ready(job_id, error) ==
    LET k == JobIdx(jobs, job_id)
        n == IF k = 0 THEN 0 ELSE ItemIdx(items, jobs[k].itemId)
    IN  IF k = 0 \/ n = 0 THEN Refuse(404)
        ELSE /\ jobs' = [jobs EXCEPT ![k].status = "failed", ![k].finishedAt = now,
                                     ![k].error = error, ![k].lastUpdateAt = now]
             /\ items' = [items EXCEPT ![n].status = "failed", ![n].lastError = error]
             /\ Respond(200)
             /\ UNCHANGED <<entries, workers, scanStatus, config, disk, now, ids, scan>>

\* POST /api/jobs/{job_id}/fail
job_fail(job_id, error) ==
    LET k == JobIdx(jobs, job_id)
        n == IF k = 0 THEN 0 ELSE ItemIdx(items, jobs[k].itemId)
    IN  IF k = 0 \/ n = 0 THEN Refuse(404)
        ELSE /\ jobs' = [jobs EXCEPT ![k].status = "failed", ![k].finishedAt = now,
                                     ![k].error = error, ![k].lastUpdateAt = now]
             /\ items' = [items EXCEPT ![n].status = "failed", ![n].lastError = error,
                                       ![n].ready = FALSE]
             /\ Respond(200)
             /\ UNCHANGED <<entries, workers, scanStatus, config, disk, now, ids, scan>>

-----------------------------------------------------------------------------
(* Requests the model issues *)

ErrorMessages == {"Cancelled by user"}
OutputSizes == {None, 500}
ProgressPayloads == {[pct |-> "50.0", etaSec |-> None, logTail |-> "none"]}

\* every handler of the coordinator, and the clock
Next ==
    \/ Tick /\ UNCHANGED procVars
    \/ \E p \in Paths : file_appears(p) /\ UNCHANGED procVars
    \/ \E p \in Roots : add_entry(p) /\ UNCHANGED procVars
    \/ \E e \in EntryIds : delete_entry(e) /\ UNCHANGED procVars
    \/ \E e \in EntryIds : scan_begin(e) /\ UNCHANGED procVars
    \/ scan_stat /\ UNCHANGED procVars
    \/ scan_file /\ UNCHANGED procVars
    \/ scan_finish /\ UNCHANGED procVars
    \/ list_items /\ UNCHANGED procVars
    \/ \E i \in ItemIds, r \in BOOLEAN : set_ready(i, r) /\ UNCHANGED procVars
    \/ \E i \in ItemIds : reset_item(i) /\ UNCHANGED procVars
    \/ \E i \in ItemIds, p \in Paths : update_item_path(i, p) /\ UNCHANGED procVars
    \/ \E i \in ItemIds : delete_item(i) /\ UNCHANGED procVars
    \/ \E w \in WorkerIds : worker_heartbeat(w, w) /\ UNCHANGED procVars
    \/ \E w \in WorkerIds : delete_worker(w) /\ UNCHANGED procVars
    \/ \E w \in WorkerIds : claim_job(w, w) /\ UNCHANGED procVars
    \/ list_jobs /\ UNCHANGED procVars
    \/ cancel_all_jobs /\ UNCHANGED procVars
    \/ \E j \in JobIds : delete_job(j) /\ UNCHANGED procVars
    \/ \E j \in JobIds : job_start(j) /\ UNCHANGED procVars
    \/ \E j \in JobIds, p \in ProgressPayloads : job_progress(j, p) /\ UNCHANGED procVars
    \/ \E j \in JobIds, o \in OutputSizes : job_complete(j, o) /\ UNCHANGED procVars
    \/ \E j \in JobIds, e \in ErrorMessages : job_fail(j, e) /\ UNCHANGED procVars

WholeSpec == Init /\ [][Next]_vars

\* The document after add_entry("/media/a"), scan_begin(1), scan_file (x.mkv),
\* scan_finish at clock 0: one scanned idle item, no job, no worker.
InitScanned ==
    /\ entries = <<[id |-> 1, path |-> "/media/a", args |-> ""]>>
    /\ items = <<LET d == InitialDisk["/media/a/x.mkv"]
                 IN  ScanUpdate(NewItem(1, 1, "/media/a/x.mkv", d.size, d.mtime),
                                Fingerprint(d.size, d.mtime), d.probe, d.size, d.mtime,
                                DefaultConfig, 0)>>
    /\ jobs = <<>>
    /\ workers = <<>>
    /\ scanStatus = [active |-> FALSE, entryId |-> 1, total |-> 1, done |-> 1,
                     currentPath |-> "none"]
    /\ config = DefaultConfig
    /\ disk = InitialDisk
    /\ now = 0
    /\ ids = [ent |-> 2, itm |-> 2, job |-> 1]
    /\ scan = IdleScan
    /\ resp = 200
    /\ wk = IdleWorker
    /\ lk = FreeLock

\* The document after add_entry("/media/a"), file_appears(y.mp4), scan_begin(1),
\* scan_file (x.mkv), scan_file (y.mp4), scan_finish at clock 0: two scanned
\* idle items in the order list_media_files yields them.
InitScanned2 ==
    /\ entries = <<[id |-> 1, path |-> "/media/a", args |-> ""]>>
    /\ disk = [InitialDisk EXCEPT !["/media/a/y.mp4"].exists = TRUE]
    /\ items = <<LET d == InitialDisk["/media/a/x.mkv"]
                 IN  ScanUpdate(NewItem(1, 1, "/media/a/x.mkv", d.size, d.mtime),
                                Fingerprint(d.size, d.mtime), d.probe, d.size, d.mtime,
                                DefaultConfig, 0),
                 LET d == InitialDisk["/media/a/y.mp4"]
                 IN  ScanUpdate(NewItem(2, 1, "/media/a/y.mp4", d.size, d.mtime),
                                Fingerprint(d.size, d.mtime), d.probe, d.size, d.mtime,
                                DefaultConfig, 0)>>
    /\ jobs = <<>>
    /\ workers = <<>>
    /\ scanStatus = [active |-> FALSE, entryId |-> 1, total |-> 2, done |-> 2,
                     currentPath |-> "none"]
    /\ config = DefaultConfig
    /\ now = 0
    /\ ids = [ent |-> 2, itm |-> 3, job |-> 1]
    /\ scan = IdleScan
    /\ resp = 200
    /\ wk = IdleWorker
    /\ lk = FreeLock

\* claiming among two items within one second of the clock: readiness toggles,
\* claims, and the endings of jobs
NextClaim ==
    \/ \E i \in ItemIds, r \in BOOLEAN : set_ready(i, r) /\ UNCHANGED procVars
    \/ \E i \in ItemIds : reset_item(i) /\ UNCHANGED procVars
    \/ \E i \in ItemIds : delete_item(i) /\ UNCHANGED procVars
    \/ \E w \in WorkerIds : claim_job(w, w) /\ UNCHANGED procVars
    \/ \E j \in JobIds : job_complete(j, None) /\ UNCHANGED procVars
    \/ \E j \in JobIds, e \in ErrorMessages : job_fail(j, e) /\ UNCHANGED procVars

ClaimSpec == InitScanned2 /\ [][NextClaim]_vars

\* entries and their scans from the empty document, with the item and job
\* handlers that put jobs on the scanned items, within one second of the clock
NextScan ==
    \/ \E p \in Paths : file_appears(p) /\ UNCHANGED procVars
    \/ \E p \in Roots : add_entry(p) /\ UNCHANGED procVars
    \/ \E e \in EntryIds : delete_entry(e) /\ UNCHANGED procVars
    \/ \E e \in EntryIds : scan_begin(e) /\ UNCHANGED procVars
    \/ scan_stat /\ UNCHANGED procVars
    \/ scan_file /\ UNCHANGED procVars
    \/ scan_finish /\ UNCHANGED procVars
    \/ \E i \in ItemIds, r \in BOOLEAN : set_ready(i, r) /\ UNCHANGED procVars
    \/ \E i \in ItemIds : delete_item(i) /\ UNCHANGED procVars
    \/ \E w \in WorkerIds : claim_job(w, w) /\ UNCHANGED procVars
    \/ \E j \in JobIds, e \in ErrorMessages : job_fail(j, e) /\ UNCHANGED procVars

ScanSpec == Init /\ [][NextScan]_vars

\* A long job history, as repeated failures and retries of item 1 leave it:
\* nOld jobs that failed more than a day ago, then nRecent jobs that failed
\* within the last hours, then nActive jobs just claimed (one per item), in
\* the order they were appended.
MaxActive == 2
PruneNow == (PRUNE_MAX_AGE_HOURS + 1) * 3600
OldCounts == {0, 1, MAX_JOBS \div 2, MAX_JOBS \div 2 + 1, MAX_JOBS \div 2 + 2}
RecentCounts == {0, MAX_JOBS \div 2 - 1, MAX_JOBS \div 2, MAX_JOBS - 2, MAX_JOBS - 1,
                 MAX_JOBS, MAX_JOBS + 1}

FailedJobAt(id, t) ==
    [NewJob(id, 1, "wrk_a", t) EXCEPT !.status = "failed", !.finishedAt = t,
                                      !.error = "HandBrakeCLI failed"]

JobHistory(nOld, nRecent, nActive) ==
    [k \in 1..(nOld + nRecent + nActive) |->
        IF k <= nOld THEN FailedJobAt(k, k)
        ELSE IF k <= nOld + nRecent THEN FailedJobAt(k, PruneNow - 2 * 3600 + k)
        ELSE NewJob(k, k - nOld - nRecent, "wrk_a", PruneNow)]

InitHistory ==
    \E nOld \in OldCounts, nRecent \in RecentCounts, nActive \in 0..MaxActive :
        LET n == nOld + nRecent
            scanned == [i \in 1..2 |->
                LET d == InitialDisk[FilesUnder("/media/a")[i]]
                IN  ScanUpdate(NewItem(i, 1, FilesUnder("/media/a")[i], d.size, d.mtime),
                               Fingerprint(d.size, d.mtime), d.probe, d.size, d.mtime,
                               DefaultConfig, 0)]
        IN  /\ entries = <<[id |-> 1, path |-> "/media/a", args |-> ""]>>
            /\ disk = [InitialDisk EXCEPT !["/media/a/y.mp4"].exists = TRUE]
            /\ jobs = JobHistory(nOld, nRecent, nActive)
            /\ items = [i \in 1..2 |->
                   IF i <= nActive
                   THEN [scanned[i] EXCEPT !.ready = TRUE, !.status = "processing",
                                           !.lastJobId = n + i]
                   ELSE IF i = 1 /\ n > 0
                   THEN [scanned[i] EXCEPT !.ready = TRUE, !.status = "failed",
                                           !.lastJobId = n,
                                           !.lastError = "HandBrakeCLI failed"]
                   ELSE scanned[i]]
            /\ workers = IF n + nActive > 0 THEN <<NewWorker("wrk_a", "wrk_a", PruneNow)>>
                         ELSE <<>>
            /\ scanStatus = [active |-> FALSE, entryId |-> 1, total |-> 2, done |-> 2,
                             currentPath |-> "none"]
            /\ config = DefaultConfig
            /\ now = PruneNow
            /\ ids = [ent |-> 2, itm |-> 3, job |-> n + nActive + 1]
            /\ scan = IdleScan
            /\ resp = 200
            /\ wk = IdleWorker
            /\ lk = FreeLock

\* the handlers that prune (the two list handlers) and a late failure report
\* for one of the oldest jobs, which makes it the newest finished job
NextPrune ==
    \/ list_items /\ UNCHANGED procVars
    \/ list_jobs /\ UNCHANGED procVars
    \/ \E j \in JobIds, e \in ErrorMessages : job_fail(j, e) /\ UNCHANGED procVars

PruneSpec == InitHistory /\ [][NextPrune]_vars

\* The same histories when the first job ever was a failed attempt at item 2
\* and every later job a retry of item 1: item 2 still names job 1 as its
\* last job.
InitMixedHistory ==
    \E nOld \in OldCounts, nRecent \in RecentCounts :
        LET n == nOld + nRecent
            scanned == [i \in 1..2 |->
                LET d == InitialDisk[FilesUnder("/media/a")[i]]
                IN  ScanUpdate(NewItem(i, 1, FilesUnder("/media/a")[i], d.size, d.mtime),
                               Fingerprint(d.size, d.mtime), d.probe, d.size, d.mtime,
                               DefaultConfig, 0)]
        IN  /\ n >= 2
            /\ entries = <<[id |-> 1, path |-> "/media/a", args |-> ""]>>
            /\ disk = [InitialDisk EXCEPT !["/media/a/y.mp4"].exists = TRUE]
            /\ jobs = [JobHistory(nOld, nRecent, 0) EXCEPT ![1].itemId = 2]
            /\ items = [i \in 1..2 |->
                   [scanned[i] EXCEPT !.status = "failed",
                                      !.lastJobId = IF i = 1 THEN n ELSE 1,
                                      !.lastError = "HandBrakeCLI failed"]]
            /\ workers = <<NewWorker("wrk_a", "wrk_a", PruneNow)>>
            /\ scanStatus = [active |-> FALSE, entryId |-> 1, total |-> 2, done |-> 2,
                             currentPath |-> "none"]
            /\ config = DefaultConfig
            /\ now = PruneNow
            /\ ids = [ent |-> 2, itm |-> 3, job |-> n + 1]
            /\ scan = IdleScan
            /\ resp = 200
            /\ wk = IdleWorker
            /\ lk = FreeLock

\* the list handlers, the deletion of a job and a late failure report
NextMixedHistory ==
    \/ list_items /\ UNCHANGED procVars
    \/ list_jobs /\ UNCHANGED procVars
    \/ \E j \in JobIds : delete_job(j) /\ UNCHANGED procVars
    \/ \E j \in JobIds, e \in ErrorMessages : job_fail(j, e) /\ UNCHANGED procVars

MixedHistorySpec == InitMixedHistory /\ [][NextMixedHistory]_vars

\* one scanned item through claims, the path update a worker posts when the
\* output has another extension, and the endings of jobs
NextRefresh ==
    \/ \E i \in ItemIds : set_ready(i, TRUE) /\ UNCHANGED procVars
    \/ \E i \in ItemIds, p \in Paths : update_item_path(i, p) /\ UNCHANGED procVars
    \/ \E w \in WorkerIds : claim_job(w, w) /\ UNCHANGED procVars
    \/ \E j \in JobIds : job_start(j) /\ UNCHANGED procVars
    \/ \E j \in JobIds, o \in OutputSizes : job_complete(j, o) /\ UNCHANGED procVars
    \/ \E j \in JobIds, e \in ErrorMessages : job_fail(j, e) /\ UNCHANGED procVars

RefreshSpec == InitScanned /\ [][NextRefresh]_vars

\* The configuration is edited while items are queued and claimed.  The
\* payloads of POST /api/config: a baseline with and without an input or an
\* output flag, the target table, both, or nothing.
BaselineArgsSent ==
    {"-f av_mkv -q 22", "-i /tmp/in.mkv -q 22", "-f av_mkv --output /tmp/out.mkv"}

TargetsSent == {(480 :> 5) @@ (720 :> 8) @@ (1080 :> 12) @@ (2160 :> 24)}

ConfigPayloads ==
    [given : SUBSET {"baselineArgs", "targetMbPerMinByHeight"},
     baselineArgs : BaselineArgsSent, targetMbPerMinByHeight : TargetsSent]

NextConfig ==
    \/ \E p \in ConfigPayloads : set_config(p) /\ UNCHANGED procVars
    \/ \E i \in ItemIds : set_ready(i, TRUE) /\ UNCHANGED procVars
    \/ \E w \in WorkerIds : claim_job(w, w) /\ UNCHANGED procVars
    \/ \E j \in JobIds, e \in ErrorMessages : job_fail(j, e) /\ UNCHANGED procVars

ConfigSpec == InitScanned /\ [][NextConfig]_vars

\* The ratio of a scanned file.  The file of the entry has any of these
\* sizes, durations and heights, and POST /api/config has stored any of these
\* target tables (none, the default one, whole numbers of MB per minute, a
\* zero) before the entry is scanned.
RatioDurations == {0, 31, 60, 65, 123, 3600}
RatioHeights == {0, 480, 481, 1080, 2160, 4000}
RatioSizes == {0, 1000, 32243712, 40000000}
RatioTargets ==
    {<<>>, DefaultTargets, (480 :> 15) @@ (1080 :> 27), (480 :> 0) @@ (720 :> 10)}

InitRatio ==
    /\ entries = <<[id |-> 1, path |-> "/media/a", args |-> ""]>>
    /\ items = <<>>
    /\ jobs = <<>>
    /\ workers = <<>>
    /\ scanStatus = DefaultScanStatus
    /\ \E t \in RatioTargets :
          config = [DefaultConfig EXCEPT !.targetMbPerMinByHeight = t]
    /\ \E d \in RatioDurations, h \in RatioHeights, s \in RatioSizes :
          disk = [InitialDisk EXCEPT !["/media/a/x.mkv"] =
                     [exists |-> TRUE, size |-> s, mtime |-> 1700,
                      probe |-> [ok |-> TRUE, durationSec |-> d, height |-> h]]]
    /\ now = 0
    /\ ids = [ent |-> 2, itm |-> 1, job |-> 1]
    /\ scan = IdleScan
    /\ resp = 200
    /\ wk = IdleWorker
    /\ lk = FreeLock

NextRatio ==
    \/ scan_begin(1) /\ UNCHANGED procVars
    \/ scan_stat /\ UNCHANGED procVars
    \/ scan_file /\ UNCHANGED procVars
    \/ scan_finish /\ UNCHANGED procVars

RatioSpec == InitRatio /\ [][NextRatio]_vars

\* Claims over minutes of the clock, with two scanned items: a claim that
\* reconciles the stale job of one item and hands out the other.  The
\* claimants are a worker and a second process that names itself like it.
Claimants == {<<"wrk_a", "box">>, <<"wrk_b", "box">>}

NextClaimTimed ==
    \/ Tick /\ UNCHANGED procVars
    \/ \E i \in ItemIds : set_ready(i, TRUE) /\ UNCHANGED procVars
    \/ \E c \in Claimants : claim_job(c[1], c[2]) /\ UNCHANGED procVars

ClaimTimedSpec == InitScanned2 /\ [][NextClaimTimed]_vars

\* the reports and requests that stamp a job, over minutes of the clock; the
\* user queues the item once
NextStamp ==
    \/ Tick /\ UNCHANGED procVars
    \/ jobs = <<>> /\ set_ready(1, TRUE) /\ UNCHANGED procVars
    \/ \E w \in WorkerIds : claim_job(w, w) /\ UNCHANGED procVars
    \/ \E j \in JobIds : job_start(j) /\ UNCHANGED procVars
    \/ \E j \in JobIds, p \in ProgressPayloads : job_progress(j, p) /\ UNCHANGED procVars
    \/ cancel_all_jobs /\ UNCHANGED procVars
    \/ \E j \in JobIds : delete_job(j) /\ UNCHANGED procVars
    \/ \E j \in JobIds : job_complete(j, None) /\ UNCHANGED procVars
    \/ \E j \in JobIds, e \in ErrorMessages : job_fail(j, e) /\ UNCHANGED procVars

StampSpec == InitScanned /\ [][NextStamp]_vars

\* the item, job and worker handlers, within one second of the clock
NextSched ==
    \/ list_items /\ UNCHANGED procVars
    \/ \E i \in ItemIds, r \in BOOLEAN : set_ready(i, r) /\ UNCHANGED procVars
    \/ \E i \in ItemIds : reset_item(i) /\ UNCHANGED procVars
    \/ \E i \in ItemIds : delete_item(i) /\ UNCHANGED procVars
    \/ \E w \in WorkerIds : worker_heartbeat(w, w) /\ UNCHANGED procVars
    \/ \E w \in WorkerIds : delete_worker(w) /\ UNCHANGED procVars
    \/ \E w \in WorkerIds : claim_job(w, w) /\ UNCHANGED procVars
    \/ list_jobs /\ UNCHANGED procVars
    \/ cancel_all_jobs /\ UNCHANGED procVars
    \/ \E j \in JobIds : delete_job(j) /\ UNCHANGED procVars
    \/ \E j \in JobIds : job_start(j) /\ UNCHANGED procVars
    \/ \E j \in JobIds, p \in ProgressPayloads : job_progress(j, p) /\ UNCHANGED procVars
    \/ \E j \in JobIds, o \in OutputSizes : job_complete(j, o) /\ UNCHANGED procVars
    \/ \E j \in JobIds, e \in ErrorMessages : job_fail(j, e) /\ UNCHANGED procVars

Spec == InitScanned /\ [][NextSched]_vars

\* the clock, and the handlers that create, touch and reconcile jobs
NextStale ==
    \/ Tick /\ UNCHANGED procVars
    \/ \E i \in ItemIds, r \in BOOLEAN : set_ready(i, r) /\ UNCHANGED procVars
    \/ \E w \in WorkerIds : worker_heartbeat(w, w) /\ UNCHANGED procVars
    \/ \E w \in WorkerIds : delete_worker(w) /\ UNCHANGED procVars
    \/ \E w \in WorkerIds : claim_job(w, w) /\ UNCHANGED procVars
    \/ list_jobs /\ UNCHANGED procVars
    \/ \E j \in JobIds : job_start(j) /\ UNCHANGED procVars
    \/ \E j \in JobIds, e \in ErrorMessages : job_fail(j, e) /\ UNCHANGED procVars

StaleSpec == InitScanned /\ [][NextStale]_vars

-----------------------------------------------------------------------------
(* LiveSpec: crash recovery.  No start, progress, complete or fail is ever  *)
(* sent: the worker process behind every claim dies right after the claim,  *)
(* and a later heartbeat or claim under the same id is its restart.         *)

\* a timestamp after the epoch has moved forward by TickSec
Shift(t) == IF t = None THEN None ELSE IF t >= TickSec THEN t - TickSec ELSE 0

\* The clock advancing for ever on a bounded range: at the top of the range the
\* epoch moves instead of the clock.  An age then saturates at MaxTicks * TickSec,
\* which is above both thresholds of cleanup_stale_jobs, so every comparison of
\* cleanup_stale_jobs is the one the unbounded clock gives; only the age printed
\* in a stale job's error is saturated.
TickForever ==
    IF now + TickSec <= MaxTicks * TickSec
    THEN Tick
    ELSE /\ jobs' = [k \in DOMAIN jobs |->
                        [jobs[k] EXCEPT !.claimedAt = Shift(@), !.startedAt = Shift(@),
                                        !.finishedAt = Shift(@), !.lastUpdateAt = Shift(@)]]
         /\ workers' = [k \in DOMAIN workers |->
                        [workers[k] EXCEPT !.lastHeartbeatAt = Shift(@)]]
         /\ items' = [k \in DOMAIN items |->
                        [items[k] EXCEPT !.scanAt = Shift(@), !.lastTranscodeAt = Shift(@)]]
         /\ UNCHANGED <<entries, scanStatus, config, disk, now, ids, scan, resp>>

NextLive ==
    \/ TickForever /\ UNCHANGED procVars
    \/ \E i \in ItemIds : set_ready(i, TRUE) /\ UNCHANGED procVars
    \/ \E w \in LiveWorkerIds : worker_heartbeat(w, w) /\ UNCHANGED procVars
    \/ \E w \in LiveWorkerIds : claim_job(w, w) /\ UNCHANGED procVars
    \/ list_jobs /\ UNCHANGED procVars
    \/ list_items /\ UNCHANGED procVars

\* time advances, and claim and list operations keep being issued: each of them
\* happens again and again as long as it can change the state again and again
LiveSpec ==
    /\ InitScanned
    /\ [][NextLive]_vars
    /\ SF_vars(TickForever /\ UNCHANGED procVars)
    /\ SF_vars(list_jobs /\ UNCHANGED procVars)
    /\ SF_vars(\E w \in LiveWorkerIds : claim_job(w, w) /\ UNCHANGED procVars)

-----------------------------------------------------------------------------
(* src/worker/worker.py: one worker process.  wk.pc is its position in main *)
(* and process_job, wk.job the job it claimed, wk.cache the artifacts in    *)
(* its cache directory, wk.error the message of the exception it is about   *)
(* to report.  A step is the local work up to and including one request to  *)
(* the coordinator, which is reachable: every request is answered.  The     *)
(* item's file keeps its .mkv name, so the output is installed on the input *)
(* path and no path update is posted; wk.tmp is dest_tmp beside the source: *)
(* absent, partly written or a whole copy of the output.                    *)

WorkerSelf == "wrk_a"

CacheSrc(job_id) == [job |-> job_id, kind |-> "src"]
CacheOut(job_id) == [job |-> job_id, kind |-> "out"]

\* the size of the installed output
InstalledSize == 500
InstalledMtime == 1800

\* GET /api/jobs/{job_id}
get_job(job_id) ==
    /\ IF JobIdx(jobs, job_id) = 0 THEN Respond(404) ELSE Respond(200)
    /\ UNCHANGED <<docVars, disk, now, ids, scan>>

\* cancel_requested: what the worker reads from the answer of get_job
CancelSeen(job_id) ==
    LET k == JobIdx(jobs, job_id)
    IN  k # 0 /\ jobs[k].cancelRequested

\* an exception leaves process_job: main's except block will report it
Raise(w, error) == [w EXCEPT !.pc = "fail", !.error = error]

ProgressNote(pct, note) == [pct |-> pct, etaSec |-> None, logTail |-> note]

\* A time of day is the sequence of the characters of "HH:MM", as the
\* configuration spells it.
\* start_h, start_m = [int(x) for x in start.split(":")]: the two numbers, or
\* <<>> when the unpacking or int raises ValueError (not exactly two fields, a
\* field that is empty or holds a character that is no digit)
ParseHM(text) ==
    LET DigitValue ==
            ("0" :> 0) @@ ("1" :> 1) @@ ("2" :> 2) @@ ("3" :> 3) @@ ("4" :> 4) @@
            ("5" :> 5) @@ ("6" :> 6) @@ ("7" :> 7) @@ ("8" :> 8) @@ ("9" :> 9)
        colons == {i \in DOMAIN text : text[i] = ":"}
        p == CHOOSE i \in colons : TRUE
        IsNumber(f) == f # <<>> /\ \A i \in DOMAIN f : f[i] \in DOMAIN DigitValue
        IntOf(f) ==
            LET val[i \in 0..Len(f)] ==
                    IF i = 0 THEN 0 ELSE val[i - 1] * 10 + DigitValue[f[i]]
            IN  val[Len(f)]
        h == SubSeq(text, 1, p - 1)
        m == SubSeq(text, p + 1, Len(text))
    IN  IF Cardinality(colons) = 1 /\ IsNumber(h) /\ IsNumber(m)
        THEN <<IntOf(h), IntOf(m)>>
        ELSE <<>>

\* variant of within_work_hours that treats a block whose start is after its
\* end like any other block
within_work_hours_no_wrap(work_hours, current) ==
    \/ work_hours = <<>>
    \/ \E b \in DOMAIN work_hours :
          LET s == ParseHM(work_hours[b].start)
              e == ParseHM(work_hours[b].end)
          IN  /\ work_hours[b].start # <<>> /\ work_hours[b].end # <<>>
              /\ s # <<>> /\ e # <<>>
              /\ s[1] * 60 + s[2] <= current /\ current <= e[1] * 60 + e[2]

\* within_work_hours(work_hours) at minute `current` of the day: the loop
\* returns True at the first block that holds the minute, skips a block with
\* a missing or unparsable bound, and returns False after the last block
within_work_hours(work_hours, current) ==
    \/ work_hours = <<>>
    \/ \E b \in DOMAIN work_hours :
          LET s == ParseHM(work_hours[b].start)
              e == ParseHM(work_hours[b].end)
              start_min == s[1] * 60 + s[2]
              end_min == e[1] * 60 + e[2]
          IN  /\ work_hours[b].start # <<>> /\ work_hours[b].end # <<>>
              /\ s # <<>> /\ e # <<>>
              /\ IF start_min <= end_min
                 THEN start_min <= current /\ current <= end_min
                 ELSE current >= start_min \/ current <= end_min

\* now.hour * 60 + now.minute on the worker's wall clock
WallMinute(w, t) == (w.boot + t \div 60) % 1440

\* main: outside the work hours the iteration writes its status, sleeps
\* pollIntervalSec and starts over
main_off_hours ==
    /\ wk.pc = "idle"
    /\ ~within_work_hours(wk.hours, WallMinute(wk, now))
    /\ UNCHANGED vars

\* heartbeat_loop: the daemon thread posts a heartbeat every 10 seconds,
\* whatever main is doing
heartbeat_loop ==
    /\ worker_heartbeat(WorkerSelf, WorkerSelf)
    /\ UNCHANGED procVars

\* variant of main that goes on to the heartbeat and the claim whatever the
\* work hours are
main_heartbeat_ungated ==
    /\ wk.pc = "idle"
    /\ worker_heartbeat(WorkerSelf, WorkerSelf)
    /\ wk' = [wk EXCEPT !.pc = "claim"]
    /\ UNCHANGED lk

\* main: inside the work hours, heartbeat(...)
main_heartbeat ==
    /\ wk.pc = "idle"
    /\ within_work_hours(wk.hours, WallMinute(wk, now))
    /\ worker_heartbeat(WorkerSelf, WorkerSelf)
    /\ wk' = [wk EXCEPT !.pc = "claim"]
    /\ UNCHANGED lk

\* main: claim_job(...); nothing to do -> sleep and poll again
main_claim ==
    /\ wk.pc = "claim"
    /\ claim_job(WorkerSelf, WorkerSelf)
    /\ wk' = IF resp' = 200
             THEN [wk EXCEPT !.pc = "start", !.job = jobs'[Len(jobs')].id, !.error = ""]
             ELSE [wk EXCEPT !.pc = "idle"]
    /\ UNCHANGED lk

\* main: post_job_update(server_url, job_id, "start")
main_start ==
    /\ wk.pc = "start"
    /\ job_start(wk.job)
    /\ wk' = IF resp' = 200 THEN [wk EXCEPT !.pc = "begin"] ELSE Raise(wk, "HTTP error")
    /\ UNCHANGED lk

\* process_job up to the first progress post: the input check, clean_cache_dir
process_begin(input_there) ==
    /\ wk.pc = "begin"
    /\ IF ~input_there
       THEN /\ wk' = Raise(wk, "Input missing")
            /\ UNCHANGED <<docVars, disk, now, ids, scan, resp>>
       ELSE /\ job_progress(wk.job, ProgressNote("5", "Copying source to cache"))
            /\ wk' = [wk EXCEPT !.pc = "precheck", !.cache = {}]
    /\ UNCHANGED lk

\* process_job: the cancel check before the source copy
process_precheck ==
    /\ wk.pc = "precheck"
    /\ get_job(wk.job)
    /\ wk' = IF CancelSeen(wk.job) THEN Raise(wk, "Cancelled by user")
             ELSE [wk EXCEPT !.pc = "copy_src"]
    /\ UNCHANGED lk

\* copy_with_cancel(input_path, local_in, ...): a chunk is written and the
\* cancel flag is read; an exception unlinks local_in
copy_source(complete) ==
    /\ wk.pc = "copy_src"
    /\ get_job(wk.job)
    /\ wk' = IF CancelSeen(wk.job) THEN Raise(wk, "Cancelled by user")
             ELSE IF ~complete THEN Raise(wk, "Copy incomplete (Copying source)")
             ELSE [wk EXCEPT !.pc = "copied_src", !.cache = @ \cup {CacheSrc(wk.job)}]
    /\ UNCHANGED lk

\* process_job: the progress post before the encoder is started
process_encode_begin ==
    /\ wk.pc = "copied_src"
    /\ job_progress(wk.job, ProgressNote("15", "Encoding"))
    /\ wk' = [wk EXCEPT !.pc = "encode"]
    /\ UNCHANGED lk

\* run_handbrake: a progress line of the encoder is posted
encode_progress(payload) ==
    /\ wk.pc = "encode"
    /\ job_progress(wk.job, payload)
    /\ UNCHANGED procVars

\* run_handbrake: the cancel poll, at most once per second; on a cancel the
\* encoder is terminated, whatever it has written stays in the cache
encode_poll(out_written) ==
    /\ wk.pc = "encode"
    /\ get_job(wk.job)
    /\ wk' = IF CancelSeen(wk.job)
             THEN [Raise(wk, "Cancelled by user") EXCEPT
                      !.cache = IF out_written THEN @ \cup {CacheOut(wk.job)} ELSE @]
             ELSE wk
    /\ UNCHANGED lk

\* run_handbrake: the encoder exits and the loop ends without another poll
encode_exit(returncode_zero, out_written) ==
    /\ wk.pc = "encode"
    /\ LET cache == IF out_written THEN wk.cache \cup {CacheOut(wk.job)} ELSE wk.cache
       IN  wk' = IF returncode_zero
                 THEN [wk EXCEPT !.pc = "post_encode", !.cache = cache]
                 ELSE [Raise(wk, "HandBrakeCLI failed") EXCEPT !.cache = cache]
    /\ UNCHANGED <<docVars, disk, now, ids, scan, resp, lk>>

\* process_job: the cancel check after the encode, then the output check
process_post_encode ==
    /\ wk.pc = "post_encode"
    /\ get_job(wk.job)
    /\ wk' = IF CancelSeen(wk.job) THEN Raise(wk, "Cancelled by user")
             ELSE IF CacheOut(wk.job) \notin wk.cache
             THEN Raise(wk, "Output missing after encode")
             ELSE [wk EXCEPT !.pc = "encoded"]
    /\ UNCHANGED lk

\* process_job: the progress post before the output copy; a dest_tmp that
\* an earlier run left behind is unlinked
process_copy_out_begin ==
    /\ wk.pc = "encoded"
    /\ job_progress(wk.job, ProgressNote("85", "Copying output to source"))
    /\ wk' = [wk EXCEPT !.pc = "copy_out", !.tmp = "none"]
    /\ UNCHANGED lk

\* copy_with_cancel(local_out, dest_tmp, ...): the first chunks are written
\* and the cancel flag is read; an exception unlinks dest_tmp
copy_output_chunk ==
    /\ wk.pc = "copy_out"
    /\ wk.tmp = "none"
    /\ get_job(wk.job)
    /\ wk' = IF CancelSeen(wk.job) THEN Raise(wk, "Cancelled by user")
             ELSE [wk EXCEPT !.tmp = "partial"]
    /\ UNCHANGED lk

\* copy_with_cancel(local_out, dest_tmp, ...): the last chunk is written and
\* the cancel flag is read, then the size check; an exception unlinks
\* dest_tmp
copy_output(complete) ==
    /\ wk.pc = "copy_out"
    /\ get_job(wk.job)
    /\ wk' = IF CancelSeen(wk.job)
             THEN [Raise(wk, "Cancelled by user") EXCEPT !.tmp = "none"]
             ELSE IF ~complete
             THEN [Raise(wk, "Copy incomplete (Copying output)") EXCEPT !.tmp = "none"]
             ELSE [wk EXCEPT !.pc = "final_check", !.tmp = "full"]
    /\ UNCHANGED lk

\* variant of the last cancel check that goes on to the rename whatever the
\* answer is
process_final_check_unheeded ==
    /\ wk.pc = "final_check"
    /\ get_job(wk.job)
    /\ wk' = [wk EXCEPT !.pc = "install"]
    /\ UNCHANGED lk

\* process_job: the last cancel check, after the output copy; on a cancel
\* dest_tmp is unlinked
process_final_check ==
    /\ wk.pc = "final_check"
    /\ get_job(wk.job)
    /\ wk' = IF CancelSeen(wk.job)
             THEN [Raise(wk, "Cancelled by user") EXCEPT !.tmp = "none"]
             ELSE [wk EXCEPT !.pc = "install"]
    /\ UNCHANGED lk

\* process_job: os.replace(dest_tmp, dest_path); FileNotFoundError becomes
\* RuntimeError("Replace failed")
process_install ==
    /\ wk.pc = "install"
    /\ IF wk.tmp = "none"
       THEN /\ wk' = Raise(wk, "Replace failed")
            /\ UNCHANGED disk
       ELSE /\ LET n == ItemIdx(items, jobs[JobIdx(jobs, wk.job)].itemId)
               IN  disk' = IF n = 0 THEN disk
                           ELSE [disk EXCEPT ![items[n].path].size = InstalledSize,
                                             ![items[n].path].mtime = InstalledMtime]
            /\ wk' = [wk EXCEPT !.pc = "tag", !.tmp = "none"]
    /\ UNCHANGED <<docVars, now, ids, scan, resp, lk>>

\* process_job: the progress post and remux_with_metadata
process_tag(remuxed) ==
    /\ wk.pc = "tag"
    /\ job_progress(wk.job, ProgressNote("96", "Tagging metadata"))
    /\ wk' = IF remuxed THEN [wk EXCEPT !.pc = "tagged"]
             ELSE Raise(wk, "Metadata tagging failed")
    /\ UNCHANGED lk

\* process_job: local_in and local_out are unlinked, the last progress post
process_finish ==
    /\ wk.pc = "tagged"
    /\ job_progress(wk.job, ProgressNote("100", "Done"))
    /\ wk' = [wk EXCEPT !.pc = "complete",
                        !.cache = @ \ {CacheSrc(wk.job), CacheOut(wk.job)}]
    /\ UNCHANGED lk

\* main: post_job_update(server_url, job_id, "complete", {outputSizeBytes});
\* raise_for_status turns an error answer into an exception
main_complete ==
    /\ wk.pc = "complete"
    /\ job_complete(wk.job, InstalledSize)
    /\ wk' = IF resp' = 200 THEN [wk EXCEPT !.pc = "idle"] ELSE Raise(wk, "HTTP error")
    /\ UNCHANGED lk

\* variant of the except block that reports nothing
main_fail_unreported ==
    /\ wk.pc = "fail"
    /\ wk' = [wk EXCEPT !.pc = "idle"]
    /\ UNCHANGED <<docVars, disk, now, ids, scan, resp, lk>>

\* main: the except block posts fail with str(exc), then sleeps and polls again
main_fail ==
    /\ wk.pc = "fail"
    /\ job_fail(wk.job, wk.error)
    /\ wk' = [wk EXCEPT !.pc = "idle"]
    /\ UNCHANGED lk

\* main: claim_job raises (no connection to the coordinator, a timeout); the
\* except block posts fail when job_id is a local of main, which it is from
\* the first claimed job on
main_claim_error ==
    /\ wk.pc = "claim"
    /\ wk' = IF wk.job = None THEN [wk EXCEPT !.pc = "idle"]
             ELSE Raise(wk, "Connection error")
    /\ UNCHANGED <<docVars, disk, now, ids, scan, resp, lk>>

\* main: the complete post is applied by the coordinator and its answer does
\* not arrive within the timeout; requests raises
main_complete_lost ==
    /\ wk.pc = "complete"
    /\ job_complete(wk.job, InstalledSize)
    /\ wk' = Raise(wk, "Read timed out")
    /\ UNCHANGED lk

\* main: the fail post does not reach the coordinator; the exception is
\* swallowed
main_fail_lost ==
    /\ wk.pc = "fail"
    /\ wk' = [wk EXCEPT !.pc = "idle"]
    /\ UNCHANGED <<docVars, disk, now, ids, scan, resp, lk>>

\* the worker process is stopped wherever it is and started again: main
\* starts with no job_id; the cache directory and dest_tmp stay as they are
worker_restart ==
    /\ wk.pc # "idle"
    /\ wk' = [IdleWorker EXCEPT !.cache = wk.cache, !.tmp = wk.tmp,
                                !.hours = wk.hours, !.boot = wk.boot]
    /\ UNCHANGED <<docVars, disk, now, ids, scan, resp, lk>>

\* the steps of the worker process
WorkerStep ==
    \/ main_heartbeat
    \/ main_claim
    \/ main_start
    \/ \E there \in BOOLEAN : process_begin(there)
    \/ process_precheck
    \/ \E ok \in BOOLEAN : copy_source(ok)
    \/ process_encode_begin
    \/ \E out \in BOOLEAN : encode_poll(out)
    \/ \E zero \in BOOLEAN, out \in BOOLEAN : encode_exit(zero, out)
    \/ process_post_encode
    \/ process_copy_out_begin
    \/ copy_output_chunk
    \/ \E ok \in BOOLEAN : copy_output(ok)
    \/ process_final_check
    \/ process_install
    \/ \E ok \in BOOLEAN : process_tag(ok)
    \/ process_finish
    \/ main_complete
    \/ main_fail

\* one live worker, and a user who queues the item and cancels
NextWorker ==
    \/ \E i \in ItemIds : set_ready(i, TRUE) /\ UNCHANGED procVars
    \/ cancel_all_jobs /\ UNCHANGED procVars
    \/ main_heartbeat
    \/ main_claim
    \/ main_start
    \/ \E there \in BOOLEAN : process_begin(there)
    \/ process_precheck
    \/ \E ok \in BOOLEAN : copy_source(ok)
    \/ process_encode_begin
    \/ \E p \in ProgressPayloads : encode_progress(p)
    \/ \E out \in BOOLEAN : encode_poll(out)
    \/ \E zero \in BOOLEAN, out \in BOOLEAN : encode_exit(zero, out)
    \/ process_post_encode
    \/ process_copy_out_begin
    \/ copy_output_chunk
    \/ \E ok \in BOOLEAN : copy_output(ok)
    \/ process_final_check
    \/ process_install
    \/ \E ok \in BOOLEAN : process_tag(ok)
    \/ process_finish
    \/ main_complete
    \/ main_fail

\* the worker is live (it keeps taking its next step, and the encoder it
\* started exits) and the coordinator answers
WorkerSpec ==
    /\ InitScanned
    /\ [][NextWorker]_vars
    /\ WF_vars(WorkerStep)

-----------------------------------------------------------------------------
(* A rescan of the library while the worker transcodes the item: the scan    *)
(* of the entry, step by step, against a worker whose job goes through.      *)

NextRescan ==
    \/ scan_begin(1) /\ UNCHANGED procVars
    \/ scan_stat /\ UNCHANGED procVars
    \/ scan_file /\ UNCHANGED procVars
    \/ scan_finish /\ UNCHANGED procVars
    \/ set_ready(1, TRUE) /\ UNCHANGED procVars
    \/ main_heartbeat
    \/ main_claim
    \/ main_start
    \/ \E there \in BOOLEAN : process_begin(there)
    \/ main_fail
    \/ process_precheck
    \/ copy_source(TRUE)
    \/ process_encode_begin
    \/ encode_exit(TRUE, TRUE)
    \/ process_post_encode
    \/ process_copy_out_begin
    \/ copy_output(TRUE)
    \/ process_final_check
    \/ process_install
    \/ process_tag(TRUE)
    \/ process_finish
    \/ main_complete

RescanSpec == InitScanned /\ [][NextRescan]_vars

(* A worker that is restarted, or whose fail post is lost, while two items   *)
(* are queued: the worker up to the start of process_job.                    *)

NextRestart ==
    \/ \E i \in ItemIds : set_ready(i, TRUE) /\ UNCHANGED procVars
    \/ main_heartbeat
    \/ main_claim
    \/ main_start
    \/ \E there \in BOOLEAN : process_begin(there)
    \/ main_fail
    \/ main_fail_lost
    \/ worker_restart

RestartSpec == InitScanned2 /\ [][NextRestart]_vars

(* A worker whose requests can fail: the claim request finds no coordinator, *)
(* the answer to the complete post is lost.  One item, queued by the user,   *)
(* and a job that goes through.                                               *)

NextLoss ==
    \/ set_ready(1, TRUE) /\ UNCHANGED procVars
    \/ main_heartbeat
    \/ main_claim
    \/ main_claim_error
    \/ main_start
    \/ \E there \in BOOLEAN : process_begin(there)
    \/ process_precheck
    \/ copy_source(TRUE)
    \/ process_encode_begin
    \/ encode_exit(TRUE, TRUE)
    \/ process_post_encode
    \/ process_copy_out_begin
    \/ copy_output(TRUE)
    \/ process_final_check
    \/ process_install
    \/ process_tag(TRUE)
    \/ process_finish
    \/ main_complete
    \/ main_complete_lost
    \/ main_fail

LossSpec == InitScanned /\ [][NextLoss]_vars

(* The worker's work hours.  The coordinator clock advances a minute at a    *)
(* time; the worker is configured with one of a few workHours lists and      *)
(* started at one of a few minutes of the day, chosen around the bounds of   *)
(* the blocks and around midnight.  The share that holds the item's file is  *)
(* not mounted on the worker, so every job it claims fails at the input      *)
(* check of process_job; the user queues the item once.                      *)

Night == [start |-> <<"2", "2", ":", "0", "0">>, end |-> <<"0", "6", ":", "0", "0">>]
Day == [start |-> <<"0", "9", ":", "0", "0">>, end |-> <<"1", "7", ":", "0", "0">>]
Noon == [start |-> <<"1", "2", ":", "0", "0">>, end |-> <<"1", "2", ":", "0", "0">>]
Misspelt == [start |-> <<"2", "2", "h", "0", "0">>, end |-> <<"0", "6", ":", "0", "0">>]
HalfOpen == [start |-> <<"2", "2", ":", "0", "0">>, end |-> <<>>]

WorkHourLists ==
    {<<>>, <<Night>>, <<Day>>, <<Noon>>, <<Misspelt>>, <<HalfOpen>>,
     <<Day, Night>>, <<Misspelt, Day>>}

\* 05:30, 05:58, 07:00, 08:57, 11:58, 16:58, 21:57, 23:30, 23:57
BootMinutes == {330, 358, 420, 537, 718, 1018, 1317, 1410, 1437}

InitHours ==
    /\ entries = <<[id |-> 1, path |-> "/media/a", args |-> ""]>>
    /\ items = <<LET d == InitialDisk["/media/a/x.mkv"]
                 IN  ScanUpdate(NewItem(1, 1, "/media/a/x.mkv", d.size, d.mtime),
                                Fingerprint(d.size, d.mtime), d.probe, d.size, d.mtime,
                                DefaultConfig, 0)>>
    /\ jobs = <<>>
    /\ workers = <<>>
    /\ scanStatus = [active |-> FALSE, entryId |-> 1, total |-> 1, done |-> 1,
                     currentPath |-> "none"]
    /\ config = DefaultConfig
    /\ disk = InitialDisk
    /\ now = 0
    /\ ids = [ent |-> 2, itm |-> 2, job |-> 1]
    /\ scan = IdleScan
    /\ resp = 200
    /\ \E h \in WorkHourLists, b \in BootMinutes :
          wk = [IdleWorker EXCEPT !.hours = h, !.boot = b]
    /\ lk = FreeLock

NextHours ==
    \/ Tick /\ UNCHANGED procVars
    \/ jobs = <<>> /\ set_ready(1, TRUE) /\ UNCHANGED procVars
    \/ heartbeat_loop
    \/ main_off_hours
    \/ main_heartbeat
    \/ main_claim
    \/ main_start
    \/ process_begin(FALSE)
    \/ main_fail

\* the heartbeat thread and the main loop keep running
HoursSpec ==
    /\ InitHours
    /\ [][NextHours]_vars
    /\ WF_vars(heartbeat_loop)
    /\ WF_vars(main_heartbeat \/ main_claim \/ main_start \/ process_begin(FALSE) \/ main_fail)

-----------------------------------------------------------------------------

(* src/server/state.py: load_state and update_state, called by the request  *)
(* threads of the server.  No mutator and no handler calls the store while   *)
(* it is inside the store, so a thread asks for _LOCK only from outside.     *)

\* variant of the lock that lets every thread in
CanAcquireAlways(t) == TRUE

\* threading.Lock: _LOCK can be taken when no thread holds it
CanAcquire(t) == lk.holder = None

\* a handler calls load_state() or update_state(mutator)
store_call(t, kind) ==
    /\ lk.th[t].pc = "idle"
    /\ lk.nextOp <= MaxOps
    /\ lk' = [lk EXCEPT !.th[t] = [pc |-> "wait", kind |-> kind, op |-> lk.nextOp,
                                   state |-> <<>>],
                        !.nextOp = @ + 1]
    /\ UNCHANGED <<docVars, disk, now, ids, scan, resp, wk>>

\* with _LOCK: the thread blocks until it gets the lock
lock_acquire(t) ==
    /\ lk.th[t].pc = "wait"
    /\ CanAcquire(t)
    /\ lk' = [lk EXCEPT !.holder = t, !.th[t].pc = "read"]
    /\ UNCHANGED <<docVars, disk, now, ids, scan, resp, wk>>

\* state = _read_state_no_lock(); load_state returns it
read_state(t) ==
    /\ lk.th[t].pc = "read"
    /\ lk' = [lk EXCEPT !.th[t].state = lk.file,
                        !.th[t].pc = IF lk.th[t].kind = "load" THEN "release" ELSE "apply"]
    /\ UNCHANGED <<docVars, disk, now, ids, scan, resp, wk>>

\* variant of update_state that writes the state in a finally clause
apply_mutator_then_write(t) ==
    /\ lk.th[t].pc = "apply"
    /\ lk' = [lk EXCEPT !.th[t].state = Append(@, lk.th[t].op),
                        !.th[t].pc = "write"]
    /\ UNCHANGED <<docVars, disk, now, ids, scan, resp, wk>>

\* result = mutator(state): the mutation is applied to the copy just read; a
\* mutator that raises may have changed the copy already, and leaves the with
\* block before the write
apply_mutator(t) ==
    /\ lk.th[t].pc = "apply"
    /\ lk' = [lk EXCEPT !.th[t].state = Append(@, lk.th[t].op),
                        !.th[t].pc = IF lk.th[t].kind = "update_raises"
                                     THEN "release" ELSE "write"]
    /\ UNCHANGED <<docVars, disk, now, ids, scan, resp, wk>>

\* _write_state_no_lock(state)
write_state(t) ==
    /\ lk.th[t].pc = "write"
    /\ lk' = [lk EXCEPT !.file = lk.th[t].state, !.th[t].pc = "release"]
    /\ UNCHANGED <<docVars, disk, now, ids, scan, resp, wk>>

\* the with block is left (by return or by the exception): _LOCK is released
lock_release(t) ==
    /\ lk.th[t].pc = "release"
    /\ lk' = [lk EXCEPT !.holder = IF @ = t THEN None ELSE @,
                        !.th[t] = IdleThread,
                        !.returned = IF lk.th[t].kind = "update"
                                     THEN @ \cup {lk.th[t].op} ELSE @]
    /\ UNCHANGED <<docVars, disk, now, ids, scan, resp, wk>>

\* the steps a thread takes inside the store once it has the lock
InsideStore(t) == read_state(t) \/ apply_mutator(t) \/ write_state(t) \/ lock_release(t)

NextLock ==
    \/ \E t \in Threads, kind \in StoreCalls : store_call(t, kind)
    \/ \E t \in Threads : lock_acquire(t)
    \/ \E t \in Threads : read_state(t)
    \/ \E t \in Threads : apply_mutator(t)
    \/ \E t \in Threads : write_state(t)
    \/ \E t \in Threads : lock_release(t)

\* threads keep running: a thread inside the store takes its next step
LockSpec ==
    /\ Init
    /\ [][NextLock]_vars
    /\ \A t \in Threads : WF_vars(InsideStore(t))

-----------------------------------------------------------------------------

(* Properties *)

\* the active jobs that name the item
ActiveJobsOf(item_id) ==
    {k \in DOMAIN jobs : jobs[k].itemId = item_id /\ IsActive(jobs[k])}

\* C1: in every reachable state each item has at most one job whose status is
\* claimed or running.
C1_OneActiveJobPerItem ==
    \A n \in DOMAIN items : Cardinality(ActiveJobsOf(items[n].id)) <= 1

\* C2: in every reachable state an item has status processing if and only if
\* some job with its itemId is claimed or running.
C2_ProcessingIffActiveJob ==
    \A n \in DOMAIN items :
        (items[n].status = "processing") <=> (ActiveJobsOf(items[n].id) # {})

\* C3: once a job is done or failed no step changes its status; the job may
\* only disappear from the list.
C3_TerminalStatusImmutable ==
    [][\A k \in DOMAIN jobs : IsTerminal(jobs[k]) =>
            \A m \in DOMAIN jobs' :
                jobs'[m].id = jobs[k].id => jobs'[m].status = jobs[k].status]_vars

\* the status changes of one job the job status machine allows
LegalJobStep(old, new) ==
    \/ old.status = "claimed" /\ new.status = "running"
    \/ old.status = "running" /\ new.status \in {"done", "failed"}
    \/ IsStale(old, workers, now) /\ new.status = "failed"

\* C4: a job's status moves only claimed -> running -> {done, failed}, or from
\* claimed or running to failed when stale reconciliation fails the job.
C4_JobStatusMachine ==
    [][\A k \in DOMAIN jobs : \A m \in DOMAIN jobs' :
            (jobs'[m].id = jobs[k].id /\ jobs'[m].status # jobs[k].status)
                => LegalJobStep(jobs[k], jobs'[m])]_vars

\* the status changes of one item the item status machine allows
LegalItemStep(old, new) ==
    \/ old.status # "processing" /\ new.status = "queued" /\ new.ready
    \/ old.status = "queued" /\ new.status = "processing"
    \/ old.status = "processing" /\ new.status \in {"done", "failed"}
    \/ old.status # "processing" /\ new.status = "idle"

\* C5: an item's status changes only by the scheduler transitions; in particular
\* it becomes done or failed only from processing.
C5_ItemStatusMachine ==
    [][\A n \in DOMAIN items : \A m \in DOMAIN items' :
            (items'[m].id = items[n].id /\ items'[m].status # items[n].status)
                => LegalItemStep(items[n], items'[m])]_vars

\* the scheduling fields of the job's item are the same after the step
ItemOfJobUntouched(job) ==
    \A n \in DOMAIN items : items[n].id = job.itemId =>
        /\ n \in DOMAIN items'
        /\ items'[n].status = items[n].status
        /\ items'[n].ready = items[n].ready
        /\ items'[n].lastError = items[n].lastError
        /\ items'[n].transcodeCount = items[n].transcodeCount
        /\ items'[n].lastTranscodeAt = items[n].lastTranscodeAt

\* C6: a complete or fail for a job that is already done or failed is answered
\* with an error and leaves status, ready, lastError, transcodeCount and
\* lastTranscodeAt of the job's item as they were.
C6_LateFinishRefused ==
    [][\A j \in JobIds :
            (/\ JobIdx(jobs, j) # 0
             /\ IsTerminal(jobs[JobIdx(jobs, j)])
             /\ \/ \E o \in OutputSizes : job_complete(j, o)
                \/ \E e \in ErrorMessages : job_fail(j, e))
            => (resp' >= 400 /\ ItemOfJobUntouched(jobs[JobIdx(jobs, j)]))]_vars

\* C7: a progress event for a job that is unknown or already done or failed
\* changes no job's progress or lastUpdateAt and no item, and is answered 204
\* when the job is unknown.
C7_LateProgressDropped ==
    [][\A j \in JobIds : \A p \in ProgressPayloads :
            (/\ job_progress(j, p)
             /\ \/ JobIdx(jobs, j) = 0
                \/ IsTerminal(jobs[JobIdx(jobs, j)]))
            => (/\ items' = items
                /\ DOMAIN jobs' = DOMAIN jobs
                /\ \A k \in DOMAIN jobs :
                        /\ jobs'[k].progress = jobs[k].progress
                        /\ jobs'[k].lastUpdateAt = jobs[k].lastUpdateAt
                /\ JobIdx(jobs, j) = 0 => resp' = 204)]_vars

\* the job is in the list and claimed or running
JobActive(j) == JobIdx(jobs, j) # 0 /\ IsActive(jobs[JobIdx(jobs, j)])

\* the job is failed and, while it is still the item's last job, the item has
\* left processing
JobRecovered(j) ==
    /\ JobIdx(jobs, j) # 0
    /\ jobs[JobIdx(jobs, j)].status = "failed"
    /\ \A n \in DOMAIN items :
            items[n].lastJobId = j => items[n].status # "processing"

\* C8: when no start, progress, complete or fail arrives for a claimed or
\* running job, time advances and claim or list keep being issued, the job
\* eventually becomes failed and its item leaves processing, whatever workers
\* (a restarted one with the same id included) heartbeat or claim meanwhile.
C8_CrashRecoveryLive ==
    \A j \in JobIds : JobActive(j) ~> JobRecovered(j)

\* C9's two conditions, read off the worker list and the job
WorkerUnknownOrSilent(job) ==
    \A k \in DOMAIN workers :
        workers[k].id = job.workerId => now - workers[k].lastHeartbeatAt >= WORKER_GRACE_SEC

JobSilent(job) ==
    now - (IF job.lastUpdateAt # None THEN job.lastUpdateAt ELSE job.claimedAt) >= MAX_AGE_SEC

\* C9: cleanup_stale_jobs changes an active job only when its worker is unknown
\* or silent for 120 s and the job is silent for 180 s; any other active job is
\* left as it is; and the item of a job failed as stale is failed, not ready,
\* with lastError equal to that job's error.
C9_StaleOnlyWhenBoth ==
    LET c == cleanup_stale_jobs(jobs, items, workers, now)
    IN  \A k \in DOMAIN jobs : IsActive(jobs[k]) =>
            /\ ~(WorkerUnknownOrSilent(jobs[k]) /\ JobSilent(jobs[k])) => c.jobs[k] = jobs[k]
            /\ c.jobs[k].status = "failed" =>
                    \A n \in DOMAIN items : items[n].id = jobs[k].itemId =>
                        /\ c.items[n].status = "failed"
                        /\ c.items[n].ready = FALSE
                        /\ c.items[n].lastError = c.jobs[k].error

\* C10: cleanup_stale_jobs run a second time at the same clock value on the
\* state the first run produced changes nothing and reports no update.
C10_CleanupIdempotent ==
    LET c1 == cleanup_stale_jobs(jobs, items, workers, now)
        c2 == cleanup_stale_jobs(c1.jobs, c1.items, workers, now)
    IN  /\ c2.jobs = c1.jobs
        /\ c2.items = c1.items
        /\ c2.updated = FALSE

\* C10's case: a state in which the first run fails a job
C10_FirstRunFailsAJob ==
    cleanup_stale_jobs(jobs, items, workers, now).updated

-----------------------------------------------------------------------------
\* C11: a claim hands out the first item, in list order, that is ready and
\* queued (after the stale reconciliation the handler runs first); when there
\* is none it answers 204, creates no job and changes no item beyond that
\* reconciliation.
C11_ClaimFirstReadyQueued ==
    [][\A w \in WorkerIds : claim_job(w, w) =>
        LET c == cleanup_stale_jobs(jobs, items, workers, now)
            cand == {q \in DOMAIN c.items :
                        c.items[q].ready /\ c.items[q].status = "queued"}
        IN  IF cand = {}
            THEN resp' = 204 /\ jobs' = c.jobs /\ items' = c.items
            ELSE LET first == CHOOSE q \in cand : \A r \in cand : q <= r
                 IN  /\ resp' = 200
                     /\ Len(jobs') = Len(c.jobs) + 1
                     /\ jobs'[Len(jobs')].itemId = c.items[first].id
                     /\ items'[first].status = "processing"
                     /\ items'[first].lastJobId = jobs'[Len(jobs')].id
                     /\ \A q \in DOMAIN c.items : q # first => items'[q] = c.items[q]]_vars

\* a claim has just taken the first of two ready queued items and left the second
C11_FirstOfTwoClaimed ==
    /\ resp = 200
    /\ Len(items) = 2 /\ jobs # <<>>
    /\ items[1].status = "processing"
    /\ items[1].lastJobId = jobs[Len(jobs)].id
    /\ jobs[Len(jobs)].itemId = items[1].id
    /\ jobs[Len(jobs)].status = "claimed"
    /\ items[2].ready /\ items[2].status = "queued"

-----------------------------------------------------------------------------
\* C12: cancelRequested is monotonic while the job is active: once it is set on
\* a claimed or running job, no handler (start, progress, claim, heartbeat,
\* list, cancel, delete) leaves that job in the document with the flag cleared.
C12_CancelRequestedMonotonic ==
    [][\A q \in DOMAIN jobs :
        (jobs[q].cancelRequested /\ IsActive(jobs[q])) =>
            \A r \in DOMAIN jobs' :
                jobs'[r].id = jobs[q].id => jobs'[r].cancelRequested]_vars

\* a cancelled job that is still active after it was also started and has
\* reported progress
C12_CancelledJobStillRunning ==
    \E q \in DOMAIN jobs :
        /\ jobs[q].cancelRequested
        /\ jobs[q].status = "running"
        /\ DOMAIN jobs[q].progress = {"pct", "logTail"}

-----------------------------------------------------------------------------
\* C13: delete, reset and ready-toggle on an item whose status is processing
\* answer 409 and leave the whole document unchanged; ready=true on an item
\* that is not processing makes it ready and queued, and on an item that is
\* already ready and queued it changes nothing (so twice equals once).
C13_ProcessingConflictAndReadyIdempotent ==
    [][\A i \in ItemIds :
        LET k == ItemIdx(items, i)
        IN  k # 0 =>
            /\ (/\ items[k].status = "processing"
                /\ \/ \E r \in BOOLEAN : set_ready(i, r)
                   \/ reset_item(i)
                   \/ delete_item(i))
               => (resp' = 409 /\ UNCHANGED docVars)
            /\ (items[k].status # "processing" /\ set_ready(i, TRUE))
               => /\ resp' = 200
                  /\ Len(items') = Len(items)
                  /\ items'[k].ready /\ items'[k].status = "queued"
                  /\ items'[k].status # "processing"
                  /\ (items[k].ready /\ items[k].status = "queued") => UNCHANGED docVars]_vars

\* a delete, reset or ready-toggle has just been refused on a processing item
C13_ConflictOnProcessingItem ==
    /\ resp = 409
    /\ \E k \in DOMAIN items : items[k].status = "processing"

-----------------------------------------------------------------------------
\* C14: a successful delete of an entry leaves no item whose entryId is that
\* entry and no job whose itemId is one of the removed items; a delete while an
\* item of the entry is processing answers 409 and removes nothing.
C14_DeleteEntryCascades ==
    [][\A e \in EntryIds :
        (EntryIdx(entries, e) # 0 /\ delete_entry(e)) =>
            LET removed == {items[k].id : k \in {m \in DOMAIN items : items[m].entryId = e}}
            IN  IF \E k \in DOMAIN items :
                        items[k].entryId = e /\ items[k].status = "processing"
                THEN resp' = 409 /\ UNCHANGED docVars
                ELSE /\ resp' = 200
                     /\ EntryIdx(entries', e) = 0
                     /\ \A k \in DOMAIN items' : items'[k].entryId # e
                     /\ \A q \in DOMAIN jobs' : jobs'[q].itemId \notin removed
                     /\ \A k \in DOMAIN items :
                            items[k].entryId # e => items[k] \in Range(items')
                     /\ \A q \in DOMAIN jobs :
                            jobs[q].itemId \notin removed => jobs[q] \in Range(jobs')]_vars

\* an entry whose item had a job has just been deleted: the entry, its items
\* and their jobs are gone although a job had been created
C14_EntryWithJobsDeleted ==
    /\ resp = 200
    /\ entries = <<>> /\ items = <<>> /\ jobs = <<>>
    /\ ids.ent > 1 /\ ids.itm > 1 /\ ids.job > 1
    /\ scan.pc = "idle"

-----------------------------------------------------------------------------
\* C15: in every reachable state every item's entryId names an entry that
\* exists, also while a scan of the entry is between two of its per-file
\* mutations.
C15_ItemsBelongToExistingEntry ==
    \A k \in DOMAIN items : EntryIdx(entries, items[k].entryId) # 0

-----------------------------------------------------------------------------
\* C16: pruning never removes a claimed or running job; it removes a finished
\* job younger than 24 hours only when 100 finished jobs are kept; and it
\* returns the list unchanged when the list has at most 100 jobs.
C16_PruneKeepsActiveAndRecent ==
    LET pruned == prune_old_jobs(jobs, now)
        keptFinished == Cardinality({q \in DOMAIN pruned : ~IsActive(pruned[q])})
    IN  /\ \A q \in DOMAIN jobs : IsActive(jobs[q]) => jobs[q] \in Range(pruned)
        /\ \A q \in DOMAIN jobs :
              (/\ ~IsActive(jobs[q])
               /\ now - FinishedTime(jobs[q]) < PRUNE_MAX_AGE_HOURS * 3600
               /\ jobs[q] \notin Range(pruned)) => keptFinished >= MAX_JOBS
        /\ Len(jobs) <= MAX_JOBS => pruned = jobs

\* a list handler has just pruned a history of more than 100 jobs that held
\* active, recent and old jobs: the active and recent ones are all still there
C16_PrunedHistory ==
    /\ Len(jobs) = MAX_JOBS
    /\ ids.job = MAX_JOBS + 2
    /\ \E q \in DOMAIN jobs : IsActive(jobs[q])
    /\ \E q \in DOMAIN jobs : ~IsActive(jobs[q]) /\ now - FinishedTime(jobs[q]) < PRUNE_MAX_AGE_HOURS * 3600

-----------------------------------------------------------------------------
\* C17: in every reachable state the sourceFingerprint of an item is
\* "{sizeBytes}:{mtime}" of that item, in particular after a post-transcode
\* refresh, with or without outputSizeBytes and whether or not the coordinator
\* can stat the item's path.
C17_FingerprintMatchesSizeAndMtime ==
    \A k \in DOMAIN items :
        items[k].sourceFingerprint = Fingerprint(items[k].sizeBytes, items[k].mtime)

-----------------------------------------------------------------------------
\* the positions of the worker from the source copy up to the install rename
BeforeInstall ==
    {"copy_src", "copied_src", "encode", "post_encode", "encoded", "copy_out",
     "final_check", "install"}

\* the job is being executed before the install rename and its cancel flag is set
CancelledBeforeInstall(j) ==
    /\ wk.job = j /\ wk.pc \in BeforeInstall
    /\ CancelSeen(j)

\* the job failed and its item failed, both with "Cancelled by user"
EndedCancelled(j) ==
    LET k == JobIdx(jobs, j)
        n == IF k = 0 THEN 0 ELSE ItemIdx(items, jobs[k].itemId)
    IN  /\ k # 0 /\ n # 0
        /\ jobs[k].status = "failed" /\ jobs[k].error = "Cancelled by user"
        /\ items[n].status = "failed" /\ items[n].lastError = "Cancelled by user"

EndedDone(j) ==
    LET k == JobIdx(jobs, j)
    IN  k # 0 /\ jobs[k].status = "done"

-----------------------------------------------------------------------------
\* C19: when the execution of a job has ended (the worker has posted complete
\* or fail and is between jobs), the cache directory holds none of the job's
\* artifacts.
C19_CacheEmptyBetweenJobs ==
    wk.pc \in {"idle", "claim"} => wk.cache = {}

-----------------------------------------------------------------------------
\* the thread is inside the with _LOCK block
InCycle(t) == lk.th[t].pc \in {"read", "apply", "write", "release"}

-----------------------------------------------------------------------------
\* C21: the minute of the day m is inside a block {start, end} iff start <= end
\* and start <= m <= end, or start > end and (m >= start or m <= end); the
\* worker is in its work hours iff it has no blocks or m is inside at least
\* one of them.  The block 22:00-06:00 holds 23:30 and 05:30 and not 07:00.
\* The blocks are written here as the minutes they span; a block with a
\* missing or misspelt bound spans nothing.
C21_BlockMinutes ==
    (Night :> [start |-> 1320, end |-> 360]) @@ (Day :> [start |-> 540, end |-> 1020])
    @@ (Noon :> [start |-> 720, end |-> 720])

C21_Inside(m, start, end) ==
    \/ start <= end /\ start <= m /\ m <= end
    \/ start > end /\ (m >= start \/ m <= end)

C21_WithinWorkHours ==
    LET m == WallMinute(wk, now)
        spans == {C21_BlockMinutes[wk.hours[b]] :
                    b \in {q \in DOMAIN wk.hours : wk.hours[q] \in DOMAIN C21_BlockMinutes}}
    IN  /\ within_work_hours(wk.hours, m)
              <=> (wk.hours = <<>> \/ \E s \in spans : C21_Inside(m, s.start, s.end))
        /\ wk.hours = <<Night>> /\ m \in {1410, 330} => within_work_hours(wk.hours, m)
        /\ wk.hours = <<Night>> /\ m = 420 => ~within_work_hours(wk.hours, m)

\* the worker configured with 22:00-06:00 has passed the check of its main
\* loop at 23:31
C21_NightWorkerPassedAt2331 ==
    /\ wk.hours = <<Night>>
    /\ WallMinute(wk, now) = 1411
    /\ wk.pc = "claim"

-----------------------------------------------------------------------------
\* C22: while the worker is out of its work hours it never issues a claim,
\* yet its heartbeats go on, so its lastHeartbeatAt on the coordinator keeps
\* advancing while it is gated.

\* the worker's wall clock is inside its work hours, by the minutes its
\* blocks span
C22_InHours ==
    \/ wk.hours = <<>>
    \/ \E b \in DOMAIN wk.hours :
          /\ wk.hours[b] \in DOMAIN C21_BlockMinutes
          /\ C21_Inside(WallMinute(wk, now), C21_BlockMinutes[wk.hours[b]].start,
                        C21_BlockMinutes[wk.hours[b]].end)

C22_HeartbeatAt ==
    LET k == WorkerIdx(workers, WorkerSelf)
    IN  IF k = 0 THEN None ELSE workers[k].lastHeartbeatAt

\* the heartbeats go on while the worker is gated
C22_HeartbeatsGoOn == [](~C22_InHours => <>(C22_HeartbeatAt = now))

\* the claim as stated: no claim request leaves the worker at a moment that
\* is out of its work hours
C22_NoClaimOutOfHours ==
    /\ [][wk.pc = "claim" /\ wk'.pc # "claim" => C22_InHours]_vars
    /\ C22_HeartbeatsGoOn

\* as amended: the worker goes on to a claim only from the top of its main
\* loop and only when the check there finds it in its work hours; a job is
\* created only by such a claim
C22_ClaimOnlyAfterCheckPassed ==
    /\ [][wk'.pc = "claim" /\ wk.pc # "claim" => wk.pc = "idle" /\ C22_InHours]_vars
    /\ [][Len(jobs') > Len(jobs) => wk.pc = "claim"]_vars
    /\ C22_HeartbeatsGoOn

\* the worker is gated with a ready item waiting, and a heartbeat of this
\* minute, later than its start, has reached the coordinator
C22_GatedWorkerHeartbeats ==
    /\ ~C22_InHours
    /\ wk.pc = "idle"
    /\ jobs = <<>>
    /\ items[1].ready /\ items[1].status = "queued"
    /\ now > 0
    /\ C22_HeartbeatAt = now

-----------------------------------------------------------------------------
\* C23: a configuration update whose baselineArgs holds -i, --input, -o or
\* --output is refused with 400 and leaves the stored baselineArgs as they
\* were, so no claim ever returns an args string with one of those flags
\* from the baseline.

\* the baselines that hold a forbidden flag
C23_ForbiddenBaselines == {"-i /tmp/in.mkv -q 22", "-f av_mkv --output /tmp/out.mkv"}

C23_ForbiddenBaselineNeverStoredNorClaimed ==
    /\ [](config.baselineArgs \notin C23_ForbiddenBaselines)
    /\ [][Len(jobs') > Len(jobs)
            => ClaimArgs(config, entries, jobs'[Len(jobs')].itemId)
                  \notin C23_ForbiddenBaselines]_vars

-----------------------------------------------------------------------------
\* C24: a successful claim creates exactly one new job with status claimed,
\* claimedAt = lastUpdateAt = now, startedAt and finishedAt unset,
\* cancelRequested false and workerId the id of the upserted worker record,
\* and in the same step sets the chosen item to processing with lastJobId
\* the new job's id and lastError cleared; no other item or job changes
\* except through the reconciliation of stale jobs.

\* job `new` is what the reconciliation makes of the active job `old`
C24_Reconciled(old, new) ==
    /\ IsActive(old)
    /\ now - LastUpdate(old) >= MAX_AGE_SEC
    /\ new = [old EXCEPT !.status = "failed", !.finishedAt = now,
                         !.error = StaleError(now - LastUpdate(old))]

C24_ClaimCreatesOneJob ==
    [][Len(jobs') > Len(jobs) =>
        LET j == jobs'[Len(jobs')]
            chosen == {n \in DOMAIN items : items[n].id = j.itemId}
        IN  /\ Len(jobs') = Len(jobs) + 1
            /\ \A k \in DOMAIN jobs : jobs[k].id # j.id
            /\ j.status = "claimed"
            /\ j.claimedAt = now /\ j.lastUpdateAt = now
            /\ j.startedAt = None /\ j.finishedAt = None
            /\ j.cancelRequested = FALSE
            /\ \E w \in DOMAIN workers' :
                  /\ workers'[w].id = j.workerId
                  /\ workers'[w].lastHeartbeatAt = now
            /\ Cardinality(chosen) = 1
            /\ DOMAIN items' = DOMAIN items
            /\ \A n \in chosen :
                  /\ items[n].ready /\ items[n].status = "queued"
                  /\ items'[n] = [items[n] EXCEPT !.status = "processing",
                                                  !.lastJobId = j.id, !.lastError = ""]
            /\ \A k \in DOMAIN jobs :
                  jobs'[k] = jobs[k] \/ C24_Reconciled(jobs[k], jobs'[k])
            /\ \A n \in DOMAIN items \ chosen :
                  \/ items'[n] = items[n]
                  \/ \E k \in DOMAIN jobs :
                        /\ jobs[k].itemId = items[n].id
                        /\ C24_Reconciled(jobs[k], jobs'[k])
                        /\ items'[n] = [items[n] EXCEPT !.status = "failed", !.ready = FALSE,
                                                        !.lastError = jobs'[k].error]
    ]_vars

\* the second job was claimed at a later minute by the process that names
\* itself like the first worker, in the step that reconciled the first job
C24_ClaimedWhileReconciling ==
    /\ Len(jobs) = 2
    /\ jobs[1].status = "failed" /\ jobs[1].finishedAt = jobs[2].claimedAt
    /\ jobs[2].status = "claimed" /\ jobs[2].claimedAt = now /\ now > 0
    /\ jobs[2].workerId = "wrk_a"
    /\ Len(workers) = 1

-----------------------------------------------------------------------------
\* C25: every cancel request of the coordinator on an active job, through
\* POST /jobs/cancel-all and through DELETE /jobs/{id} alike, sets
\* cancelRequested, writes progress.logTail = "Cancel requested" and
\* advances the job's lastUpdateAt.
C25_CancelRequestWritesLogTail ==
    [][\A k \in DOMAIN jobs, m \in DOMAIN jobs' :
          /\ jobs'[m].id = jobs[k].id
          /\ IsActive(jobs[k])
          /\ ~jobs[k].cancelRequested /\ jobs'[m].cancelRequested
          => /\ "logTail" \in DOMAIN jobs'[m].progress
             /\ jobs'[m].progress["logTail"] = "Cancel requested"
             /\ jobs'[m].lastUpdateAt = now
    ]_vars

-----------------------------------------------------------------------------
\* C26: DELETE /jobs/{id} on a claimed or running job does not remove it: the
\* job stays in the list with the same status, only cancelRequested becomes
\* true, and the answer is {ok: false, cancelRequested: true}.  On a terminal
\* job it removes exactly that job, and afterwards no item has lastJobId
\* equal to the deleted id.
C26_DeleteJobCancelsOrRemoves ==
    [][\A id \in JobIds :
          delete_job(id) /\ JobIdx(jobs, id) # 0 =>
             LET k == JobIdx(jobs, id)
             IN  IF jobs[k].status \in {"claimed", "running"}
                 THEN /\ jobs' = [jobs EXCEPT ![k].cancelRequested = TRUE]
                      /\ jobs'[k].status = jobs[k].status
                      /\ items' = items
                      /\ delete_job_result(jobs, id) = [ok |-> FALSE, cancelRequested |-> TRUE]
                 ELSE /\ Len(jobs') = Len(jobs) - 1
                      /\ \A m \in DOMAIN jobs' :
                            jobs'[m] = jobs[IF m < k THEN m ELSE m + 1]
                      /\ \A n \in DOMAIN items' : items'[n].lastJobId # id
                      /\ delete_job_result(jobs, id) = [ok |-> TRUE]
    ]_vars

\* the first job failed and was deleted; the second, still active, was asked
\* to cancel through DELETE (no log tail was written) and is still listed
C26_ActiveKeptTerminalRemoved ==
    /\ Len(jobs) = 1
    /\ jobs[1].id = 2
    /\ IsActive(jobs[1])
    /\ jobs[1].cancelRequested
    /\ "logTail" \notin DOMAIN jobs[1].progress
    /\ items[1].lastJobId = 2

-----------------------------------------------------------------------------
\* C27: two-tier pruning.  When more than 100 jobs exist, a list operation
\* keeps the newest finished jobs younger than 24 hours, up to 100 of them,
\* and in addition keeps up to 50 finished jobs older than 24 hours as
\* history: of the older jobs it keeps 50, or all of them when they are
\* fewer.
C27_Recent(job) == ~IsActive(job) /\ now - FinishedTime(job) < PRUNE_MAX_AGE_HOURS * 3600
C27_Old(job) == ~IsActive(job) /\ ~C27_Recent(job)
C27_Min(a, b) == IF a < b THEN a ELSE b

C27_TwoTierPruning ==
    [][Len(jobs) > MAX_JOBS /\ Len(jobs') < Len(jobs) =>
        /\ Cardinality({q \in DOMAIN jobs' : C27_Recent(jobs'[q])})
              = C27_Min(MAX_JOBS, Cardinality({q \in DOMAIN jobs : C27_Recent(jobs[q])}))
        /\ Cardinality({q \in DOMAIN jobs' : C27_Old(jobs'[q])})
              = C27_Min(MAX_JOBS \div 2, Cardinality({q \in DOMAIN jobs : C27_Old(jobs[q])}))
    ]_vars

-----------------------------------------------------------------------------
\* C28: for each job, lastUpdateAt never decreases across any sequence of
\* claim, start, progress, cancel, complete and fail operations, the clock
\* of the coordinator never going back.
C28_LastUpdateAtNeverDecreases ==
    [][\A k \in DOMAIN jobs, m \in DOMAIN jobs' :
          jobs'[m].id = jobs[k].id => jobs'[m].lastUpdateAt >= jobs[k].lastUpdateAt
    ]_vars

\* a job claimed at one minute, then stamped at later minutes by a progress
\* report and by a cancel request
C28_StampedThriceOverTime ==
    \E k \in DOMAIN jobs :
        /\ jobs[k].status = "running"
        /\ jobs[k].claimedAt < jobs[k].startedAt
        /\ jobs[k].startedAt < jobs[k].lastUpdateAt
        /\ jobs[k].cancelRequested
        /\ "pct" \in DOMAIN jobs[k].progress

-----------------------------------------------------------------------------
\* C29: completing a running job sets the job to done and, in the same step,
\* its item to status done with ready false, lastError cleared,
\* lastTranscodeAt = now and transcodeCount one higher; when the worker
\* supplied outputSizeBytes and the file cannot be stat-ed, the item's
\* sizeBytes is outputSizeBytes.
C29_CompleteFinishesJobAndItem ==
    [][\A id \in JobIds, o \in OutputSizes :
          (/\ job_complete(id, o)
           /\ JobIdx(jobs, id) # 0
           /\ jobs[JobIdx(jobs, id)].status = "running"
           /\ ItemIdx(items, jobs[JobIdx(jobs, id)].itemId) # 0) =>
             LET k == JobIdx(jobs, id)
                 n == ItemIdx(items, jobs[k].itemId)
             IN  /\ jobs'[k].status = "done"
                 /\ items'[n].status = "done"
                 /\ items'[n].ready = FALSE
                 /\ items'[n].lastError = ""
                 /\ items'[n].lastTranscodeAt = now
                 /\ items'[n].transcodeCount = items[n].transcodeCount + 1
                 /\ (o # None /\ ~disk[items[n].path].exists) => items'[n].sizeBytes = o
    ]_vars

\* a job that ran is done and its item, whose path names no file, carries
\* the size the worker reported
C29_DoneWithReportedSize ==
    \E k \in DOMAIN jobs, n \in DOMAIN items :
        /\ jobs[k].itemId = items[n].id
        /\ jobs[k].status = "done" /\ jobs[k].startedAt # None
        /\ items[n].status = "done" /\ items[n].transcodeCount = 1
        /\ ~disk[items[n].path].exists
        /\ items[n].sizeBytes = 500

-----------------------------------------------------------------------------
\* C30: whenever a scan updates an existing item because its stored
\* fingerprint differs from the fingerprint on disk or its scanAt is unset,
\* the item was probed again during that scan and the metadata written comes
\* from that probe, with scanAt advanced; also when another mutation of the
\* item (the refresh of a job completion, an earlier scan) lands between the
\* scan's first reading of the document and its mutator for the file.
C30_UpdatedItemWasProbed ==
    [][scan.pc = "apply" /\ scan'.pc = "files" =>
        \A k \in DOMAIN items :
            (/\ k = FirstIdx({q \in DOMAIN items : items[q].path = Head(scan.files)})
             /\ \/ items[k].sourceFingerprint # Fingerprint(scan.stat.size, scan.stat.mtime)
                \/ items[k].scanAt = None) =>
                /\ scan.stat.probed
                /\ items'[k].scanAt = now
                /\ scan.stat.metadata.ok =>
                      /\ items'[k].durationSec = scan.stat.metadata.durationSec
                      /\ items'[k].height = scan.stat.metadata.height
    ]_vars

-----------------------------------------------------------------------------
\* the steps of POST /api/entries/{id}/scan
C31_ScanStep ==
    \/ \E e \in EntryIds : scan_begin(e)
    \/ scan_stat
    \/ scan_file
    \/ scan_finish

C31_ItemsAt(is, path) == {k \in DOMAIN is : is[k].path = path}

\* C31: no step of a scan changes ready, status, lastJobId, lastError,
\* transcodeCount or entryId of an item that is already in the document,
\* re-probed or not, and no step of a scan adds an item for a path that an
\* item already has.
C31_ScanKeepsItemState ==
    [][C31_ScanStep =>
        /\ Len(items') >= Len(items)
        /\ \A k \in DOMAIN items :
              /\ items'[k].id = items[k].id
              /\ items'[k].ready = items[k].ready
              /\ items'[k].status = items[k].status
              /\ items'[k].lastJobId = items[k].lastJobId
              /\ items'[k].lastError = items[k].lastError
              /\ items'[k].transcodeCount = items[k].transcodeCount
              /\ items'[k].entryId = items[k].entryId
        /\ \A p \in Paths :
              C31_ItemsAt(items, p) # {} =>
                  C31_ItemsAt(items', p) = C31_ItemsAt(items, p)
    ]_vars

\* the scan's mutator is about to pass an item that failed and was queued
\* again, which the scan did not probe
C31_RescanOfFailedItem ==
    /\ scan.pc = "apply"
    /\ ~scan.stat.probed
    /\ \E k \in DOMAIN items :
          /\ items[k].path = Head(scan.files)
          /\ items[k].ready
          /\ items[k].lastError # ""

\* the scan's mutator is about to update a transcoded item that the scan
\* probed again
C31_RescanOfUsedItem ==
    /\ scan.pc = "apply"
    /\ scan.stat.probed
    /\ \E k \in DOMAIN items :
          /\ items[k].path = Head(scan.files)
          /\ items[k].status = "done"
          /\ items[k].transcodeCount = 1
          /\ items[k].lastJobId # None

-----------------------------------------------------------------------------
\* the positions of the worker inside process_job
C32_Executing ==
    {"begin", "precheck", "copy_src", "copied_src", "encode", "post_encode", "encoded",
     "copy_out", "final_check", "install", "tag", "tagged"}

\* C32: for a job the worker claimed and started, an exception raised while
\* the job executes is caught in main and reported by a fail call for that
\* job with the message of the exception, and the worker goes back to
\* polling; when the execution returns, the worker posts complete for that
\* job with the size of the output.
C32_ExceptionReportedThenPolling ==
    /\ [][wk.pc \in C32_Executing /\ wk' # wk =>
            /\ wk'.job = wk.job
            /\ wk'.pc \in C32_Executing \cup {"complete", "fail"}
            /\ wk'.pc = "fail" => wk'.error # ""
       ]_vars
    /\ [][wk.pc = "fail" /\ wk' # wk =>
            /\ job_fail(wk.job, wk.error)
            /\ wk'.pc = "idle"
       ]_vars
    /\ [][wk.pc = "complete" /\ wk' # wk =>
            /\ job_complete(wk.job, InstalledSize)
            /\ resp' = 200 => wk'.pc = "idle"
       ]_vars
    /\ (wk.pc \in {"complete", "fail"}) ~> (wk.pc = "idle")

\* a job whose input was missing was reported failed with that message, and
\* the worker polls again
C32_FailedJobReported ==
    /\ wk.pc = "claim"
    /\ \E k \in DOMAIN jobs :
          /\ jobs[k].id = wk.job
          /\ jobs[k].status = "failed"
          /\ jobs[k].error = "Input missing"
          /\ jobs[k].startedAt # None

-----------------------------------------------------------------------------
-----------------------------------------------------------------------------
\* the key the claim names: the smallest key >= height, the largest key when
\* the height is above every key
C34_Key(keys, height) ==
    LET above == {k \in keys : k >= height}
    IN  IF above # {}
        THEN CHOOSE k \in above : \A m \in above : k <= m
        ELSE CHOOSE k \in keys : \A m \in keys : m <= k

\* durationSec / 60 * target * 1048576 in exact arithmetic, as the whole
\* part and the numerator of the fraction over 60
C34_Target(durationSec, target) ==
    LET whole == (durationSec \div 60) * target * MIB
        rest == (durationSec % 60) * target * MIB
    IN  [bytes |-> whole + rest \div 60, fraction |-> rest % 60]

\* the ratio the claim gives an item; byte counts are whole numbers, cut
\* toward zero
C34_Ratio(item, targets) ==
    IF item.durationSec <= 0 \/ item.sizeBytes <= 0 \/ item.height <= 0
           \/ DOMAIN targets = {}
    THEN [targetBytes |-> 0, savingsBytes |-> 0]
    ELSE LET t == C34_Target(item.durationSec, targets[C34_Key(DOMAIN targets, item.height)])
             d == item.sizeBytes - t.bytes
         IN  [targetBytes |-> t.bytes,
              savingsBytes |-> IF t.fraction # 0 /\ d > 0 THEN d - 1 ELSE d]

\* C34: compute_ratio takes the smallest configured height key >= the item's
\* height, or the largest key when the height is above every key; it returns
\* zeros whenever durationSec <= 0, sizeBytes <= 0, height <= 0 or the target
\* table is empty, and otherwise targetBytes = durationSec / 60 * target[key]
\* * 1048576 and savingsBytes = sizeBytes - targetBytes: every scanned item
\* carries that ratio.
C34_RatioAsSpecified ==
    \A k \in DOMAIN items :
        items[k].scanAt # None =>
            items[k].ratio = C34_Ratio(items[k], config.targetMbPerMinByHeight)

-----------------------------------------------------------------------------
\* the claimed and running jobs the coordinator holds for a worker id
C35_ActiveJobsOf(wid) == {k \in DOMAIN jobs : jobs[k].workerId = wid /\ IsActive(jobs[k])}

\* C35: in every state of the coordinator each worker id has at most one job
\* that is claimed or running, also after the worker was restarted and claimed
\* again and after its fail or complete call for the job before was lost.
C35_OneActiveJobPerWorker ==
    \A k \in DOMAIN workers : Cardinality(C35_ActiveJobsOf(workers[k].id)) <= 1

-----------------------------------------------------------------------------
\* C36: the worker sends fail only for the job it is executing: no fail for
\* a job whose complete call the coordinator has applied, and an exception
\* of the claim (or the heartbeat) of a later iteration of main's loop sends
\* no fail for the job of an earlier iteration.
C36_FailOnlyForCurrentJob ==
    /\ [][wk.pc = "fail" /\ wk' # wk =>
            \A k \in DOMAIN jobs : jobs[k].id = wk.job => jobs[k].status # "done"
       ]_vars
    /\ [][wk.pc = "claim" => wk'.pc # "fail"]_vars

-----------------------------------------------------------------------------
\* C37: in every state a queued item has ready = true, an item with
\* ready = true is queued or processing, and idle, done and failed items have
\* ready = false.
C37_ReadyMatchesStatus ==
    \A k \in DOMAIN items :
        /\ items[k].status \in {"idle", "queued", "processing", "done", "failed"}
        /\ items[k].status = "queued" => items[k].ready
        /\ items[k].ready => items[k].status \in {"queued", "processing"}
        /\ items[k].status \in {"idle", "done", "failed"} => ~items[k].ready

\* an item that was queued again after a first job is failed by a late fail
\* call for that first job, while its second job is still claimed
C37_FailedWhileClaimed ==
    \E k \in DOMAIN items, a \in DOMAIN jobs, b \in DOMAIN jobs :
        /\ items[k].status = "failed"
        /\ jobs[a].itemId = items[k].id
        /\ jobs[b].itemId = items[k].id
        /\ jobs[a].status = "failed"
        /\ jobs[b].status = "claimed"
        /\ items[k].lastJobId = jobs[b].id

-----------------------------------------------------------------------------
\* C38: in every state each item's lastJobId is null or the id of a job in
\* the job list, after claims, after the deletion of a job or an entry and
\* after the pruning that the list operations run.
C38_LastJobIdNamesAJob ==
    \A k \in DOMAIN items :
        items[k].lastJobId # None => JobIdx(jobs, items[k].lastJobId) # 0

-----------------------------------------------------------------------------
\* C39: when the execution of a job on the worker has ended with an exception
\* (the worker is about to report the job failed), the media file at the
\* item's path has not been replaced: the file on disk differs from the
\* original only if some job is recorded done.
C39_Completed == \E j \in DOMAIN jobs : jobs[j].status = "done"
C39_FailedJobLeftSourceAlone ==
    wk.pc = "fail" => disk = InitialDisk \/ C39_Completed

-----------------------------------------------------------------------------
\* the thread's call of update_state ends with the mutator's exception (the
\* handler answers 404 or 409) and the thread is inside the with block
C40_Raising(t) == lk.holder = t /\ lk.th[t].kind = "update_raises"

C40_RefusedHandlerChangesNothing ==
    [][resp' \in {404, 409} /\ resp' # resp => UNCHANGED docVars]_vars

====
